---- MODULE Spec2Model ----
(***************************************************************************)
(* Model of the Instagram scraping service of src/scrapper.js: the global  *)
(* hourly token bucket (RateLimiterSimple), the NodeCache of fetched        *)
(* posts, the normalisation helpers (extractHashtags, processPosts) and     *)
(* the asynchronous fetchInstagramPosts, whose awaits (actor call raced     *)
(* against a local timer, dataset retrieval) are the points at which        *)
(* concurrent requests interleave.                                          *)
(*                                                                         *)
(* Strings are sequences of one-character strings, so that trim,           *)
(* toLowerCase, includes and template formatting are computed, not         *)
(* assumed.  Times are milliseconds, as Date.now() gives them.             *)
(***************************************************************************)
EXTENDS Integers, Sequences, FiniteSets, TLC

VARIABLES
    now,         \* Date.now(): the wall clock, in ms
    ticks,       \* how many times the clock has advanced (bounds the model)
    tokens,      \* RateLimiterSimple: tokens
    lastRefill,  \* RateLimiterSimple: lastRefill
    cache,       \* NodeCache: key -> [v |-> posts, t |-> expiry instant]
    req,         \* one record per in-flight invocation of fetchInstagramPosts
    windowCalls, \* history: actor calls started since the last refill
    nreq,        \* history: invocations started so far (bounds the model)
    ret,         \* history: the last direct call of a limiter method and what it returned
    call,        \* the last direct call of processPosts or extractHashtags, with its result
    poll,        \* src/unnamed/part_000: one invocation of its polling fetchInstagramPosts
    scrape,      \* src/unnamed/part_004, part_005: one invocation of scrapeInstagramPosts
    v2           \* src/unnamed/part_002: its limiter, its cache and one request to POST /

\* the state outside src/scrapper.js's server
others == <<call, poll, scrape, v2>>

vars == <<now, ticks, tokens, lastRefill, cache, req, windowCalls, nreq, ret, call, poll, scrape, v2>>

-----------------------------------------------------------------------------
(* CONFIG, src/scrapper.js lines 9-17 *)

CACHE_TTL == 900

MAX_POSTS == 100

ACTOR_TIMEOUT == 30000

RATE_LIMIT_PER_HOUR == 100

REFILL_INTERVAL == 60 * 60 * 1000

DEFAULT_LIMIT == 10

MAX_USERNAME == 50

-----------------------------------------------------------------------------
(* Bounds of the model *)

MaxTicks == 2

MaxRequests == 2

MaxRemove == 3

\* the longest list of raw items handed to processPosts directly
MaxItems == 3

\* the most pieces a caption handed to extractHashtags directly is made of
MaxPieces == 3

\* the most edges in a scraped document
MaxEdges == 2

\* the number of status reads the model counts
MaxPolls == 3

\* the requests that can be in flight at once
Slots == {1, 2}

-----------------------------------------------------------------------------
(* JavaScript string primitives over sequences of characters *)

UpperAlpha == <<"A", "B", "C", "D", "E", "F", "G", "H", "I", "J", "K", "L", "M", "N", "O", "P", "Q", "R", "S", "T", "U", "V", "W", "X", "Y", "Z">>

LowerAlpha == <<"a", "b", "c", "d", "e", "f", "g", "h", "i", "j", "k", "l", "m", "n", "o", "p", "q", "r", "s", "t", "u", "v", "w", "x", "y", "z">>

Digits == <<"0", "1", "2", "3", "4", "5", "6", "7", "8", "9">>

WhiteSpace == {" ", "\t", "\n", "\r"}

\* String.prototype.toLowerCase, one character
LowerChar(c) ==
    IF \E i \in 1..26 : UpperAlpha[i] = c
    THEN LowerAlpha[CHOOSE i \in 1..26 : UpperAlpha[i] = c]
    ELSE c

\* String.prototype.toLowerCase
ToLowerCase(s) == [i \in 1..Len(s) |-> LowerChar(s[i])]

\* String.prototype.trim: drop leading and trailing white space
Trim(s) ==
    IF \A i \in 1..Len(s) : s[i] \in WhiteSpace THEN <<>>
    ELSE LET lo == CHOOSE i \in 1..Len(s) :
                       /\ s[i] \notin WhiteSpace
                       /\ \A j \in 1..(i - 1) : s[j] \in WhiteSpace
             cut == CHOOSE k \in 0..(Len(s) - 1) :
                       /\ s[Len(s) - k] \notin WhiteSpace
                       /\ \A j \in (Len(s) - k + 1)..Len(s) : s[j] \in WhiteSpace
         IN  SubSeq(s, lo, Len(s) - cut)

\* String.prototype.includes
Includes(s, sub) ==
    \E i \in 0..(Len(s) - Len(sub)) : SubSeq(s, i + 1, i + Len(sub)) = sub

\* String(n) for an integer n >= 0: its decimal digits
RECURSIVE NumToString(_)
NumToString(n) ==
    IF n < 10 THEN <<Digits[n + 1]>>
    ELSE NumToString(n \div 10) \o <<Digits[(n % 10) + 1]>>

Min(a, b) == IF a <= b THEN a ELSE b

Max(a, b) == IF a >= b THEN a ELSE b

-----------------------------------------------------------------------------
(* RateLimiterSimple, src/scrapper.js lines 38-66.  The closure's two       *)
(* variables are passed as the record L = [tokens, lastRefill]; t is        *)
(* Date.now() at the call.                                                  *)

\* refill() with the comparison made strict: exactly one hour is not enough
refill_Strict(L, t) ==
    LET elapsed == t - L.lastRefill
    IN  IF elapsed > REFILL_INTERVAL
        THEN [tokens |-> RATE_LIMIT_PER_HOUR, lastRefill |-> t]
        ELSE L

\* refill(): once a full hour has elapsed, reset the bucket and the window
refill(L, t) ==
    LET elapsed == t - L.lastRefill
    IN  IF elapsed >= REFILL_INTERVAL
        THEN [tokens |-> RATE_LIMIT_PER_HOUR, lastRefill |-> t]
        ELSE L

\* tryRemoveTokens(n) without the check: it always removes and succeeds
tryRemoveTokens_NoCheck(L, t, n) ==
    LET R == refill(L, t)
    IN  [ok |-> TRUE, lim |-> [R EXCEPT !.tokens = @ - n]]

\* tryRemoveTokens(n) that removes first and checks afterwards
tryRemoveTokens_RemoveFirst(L, t, n) ==
    LET R == refill(L, t)
    IN  [ok |-> R.tokens - n >= 0, lim |-> [R EXCEPT !.tokens = Max(0, @ - n)]]

\* tryRemoveTokens(n) with the check off by one
tryRemoveTokens_OffByOne(L, t, n) ==
    LET R == refill(L, t)
    IN  IF R.tokens >= n - 1
        THEN [ok |-> TRUE,  lim |-> [R EXCEPT !.tokens = @ - n]]
        ELSE [ok |-> FALSE, lim |-> R]

\* tryRemoveTokens(n): the value returned (ok) and the limiter afterwards (lim)
tryRemoveTokens(L, t, n) ==
    LET R == refill(L, t)
    IN  IF R.tokens >= n
        THEN [ok |-> TRUE,  lim |-> [R EXCEPT !.tokens = @ - n]]
        ELSE [ok |-> FALSE, lim |-> R]

\* getTokensLeft(): the value returned (value) and the limiter afterwards (lim)
getTokensLeft(L, t) ==
    LET R == refill(L, t)
    IN  [value |-> R.tokens, lim |-> R]

Limiter == [tokens |-> tokens, lastRefill |-> lastRefill]

-----------------------------------------------------------------------------
(* The NodeCache instance, src/scrapper.js lines 27-31: stdTTL = CACHE_TTL  *)
(* seconds, deleteOnExpire, useClones false.  An entry is [v, t]: the       *)
(* stored value and the instant after which it is expired.                  *)

NoPosts == <<>>

\* NodeCache _check: an entry is expired once its instant lies in the past
Expired(e, t) == e.t # 0 /\ e.t < t

\* c without the keys in ks
CacheDel(c, ks) == [k \in (DOMAIN c) \ ks |-> c[k]]

\* cache.get(key): hit with the value, or a miss; an expired entry is
\* deleted by the read
CacheGet(c, key, t) ==
    IF key \in DOMAIN c /\ ~Expired(c[key], t)
    THEN [hit |-> TRUE,  v |-> c[key].v, cache |-> c]
    ELSE [hit |-> FALSE, v |-> NoPosts,
          cache |-> IF key \in DOMAIN c THEN CacheDel(c, {key}) ELSE c]

\* cache.set(key, value) with the standard TTL
CacheSet(c, key, value, t) ==
    [k \in (DOMAIN c) \cup {key} |->
        IF k = key THEN [v |-> value, t |-> t + CACHE_TTL * 1000] ELSE c[k]]

\* cache.keys()
CacheKeys(c) == DOMAIN c

\* the periodic check (checkperiod): every expired entry is deleted
CacheCheckData(c, t) == CacheDel(c, {k \in DOMAIN c : Expired(c[k], t)})

\* what reads of the cache at time t can see
LiveCache(c, t) == [k \in {x \in DOMAIN c : ~Expired(c[x], t)} |-> c[k].v]

-----------------------------------------------------------------------------
(* extractHashtags, src/scrapper.js lines 71-79 *)

HebrewChars == {"א"}

\* a character of the class [\w\u0590-\u05ff]
IsTagChar(c) ==
    \/ \E i \in 1..26 : c = UpperAlpha[i] \/ c = LowerAlpha[i]
    \/ \E i \in 1..10 : c = Digits[i]
    \/ c = "_"
    \/ c \in HebrewChars

\* the end of the longest run of tag characters that starts at position i
RECURSIVE RunEnd(_, _)
RunEnd(s, i) ==
    IF i + 1 <= Len(s) /\ IsTagChar(s[i + 1]) THEN RunEnd(s, i + 1) ELSE i

\* text.match(/#[\w\u0590-\u05ff]+/g): the matches from position i on,
\* leftmost first, each as long as possible, none overlapping
RECURSIVE MatchTags(_, _)
MatchTags(s, i) ==
    IF i > Len(s) THEN <<>>
    ELSE IF s[i] = "#" /\ i + 1 <= Len(s) /\ IsTagChar(s[i + 1])
         THEN <<SubSeq(s, i, RunEnd(s, i + 1))>> \o MatchTags(s, RunEnd(s, i + 1) + 1)
         ELSE MatchTags(s, i + 1)

\* Array.from(new Set(xs)): first occurrences, in order
RECURSIVE SetOrder(_)
SetOrder(xs) ==
    IF xs = <<>> THEN <<>>
    ELSE LET front == SetOrder(SubSeq(xs, 1, Len(xs) - 1))
             x == xs[Len(xs)]
         IN  IF \E i \in 1..Len(front) : front[i] = x THEN front ELSE Append(front, x)

\* extractHashtags that keeps the letters' case
extractHashtags_KeepCase(text) ==
    IF text = <<>> THEN <<>>
    ELSE LET matches == MatchTags(text, 1)
         IN  SetOrder([i \in 1..Len(matches) |-> Tail(matches[i])])

\* extractHashtags(text); the empty text stands for every falsy argument
extractHashtags(text) ==
    IF text = <<>> THEN <<>>
    ELSE LET matches == MatchTags(text, 1)
         IN  SetOrder([i \in 1..Len(matches) |-> ToLowerCase(Tail(matches[i]))])

-----------------------------------------------------------------------------
(* processPosts, src/scrapper.js lines 81-109.  A raw item is a record      *)
(*   [type, id, shortCode, timestamp, title, caption, hashtags]             *)
(* in which the empty string and timestamp 0 stand for the falsy values     *)
(* (undefined, null, "", 0) that the code's "||" does not tell apart, and   *)
(* hashtags is [isArray, v].  A null item is an item whose type is "null".  *)

TITLE_MAX == 100

\* caption.split("\n")[0]
FirstLine(s) ==
    IF \E i \in 1..Len(s) : s[i] = "\n"
    THEN SubSeq(s, 1, (CHOOSE i \in 1..Len(s) :
                          s[i] = "\n" /\ \A j \in 1..(i - 1) : s[j] # "\n") - 1)
    ELSE s

\* item.title || (first line of the caption, cut to 100 characters, trimmed)
DeriveTitle(item) ==
    IF item.title # <<>> THEN item.title
    ELSE IF FirstLine(item.caption) # <<>>
         THEN Trim(SubSeq(FirstLine(item.caption), 1,
                          Min(TITLE_MAX, Len(FirstLine(item.caption)))))
         ELSE <<>>

\* item.id || item.shortCode || item.timestamp || title, tagged with its
\* JavaScript type: a Map tells the number 5 from the string "5"
DedupKey(item) ==
    IF item.id # <<>> THEN <<"string", item.id>>
    ELSE IF item.shortCode # <<>> THEN <<"string", item.shortCode>>
    ELSE IF item.timestamp # 0 THEN <<"number", item.timestamp>>
    ELSE <<"string", DeriveTitle(item)>>

\* the post stored for an accepted item; t is Date.now()
MakePost(item, t) ==
    [id        |-> item.id,
     title     |-> DeriveTitle(item),
     caption   |-> item.caption,
     hashtags  |-> IF item.hashtags.isArray THEN item.hashtags.v
                   ELSE extractHashtags(item.caption),
     timestamp |-> IF item.timestamp # 0 THEN item.timestamp ELSE t]

\* posts.has(key) on the Map whose keys, in insertion order, are keys
MapHas(keys, key) == \E k \in 1..Len(keys) : keys[k] = key

\* the loop without the posts.has(key) test: every post is stored
RECURSIVE ProcessLoop_NoDedup(_, _, _, _, _, _)
ProcessLoop_NoDedup(items, maxPosts, t, i, keys, posts) ==
    IF i > Len(items) THEN [posts |-> posts, keys |-> keys, examined |-> i - 1]
    ELSE IF Len(posts) >= maxPosts
         THEN [posts |-> posts, keys |-> keys, examined |-> i - 1]
    ELSE IF items[i].type # "Post"
         THEN ProcessLoop_NoDedup(items, maxPosts, t, i + 1, keys, posts)
    ELSE ProcessLoop_NoDedup(items, maxPosts, t, i + 1,
                             Append(keys, DedupKey(items[i])),
                             Append(posts, MakePost(items[i], t)))

\* the loop counting every item it looks at, accepted or not, against maxPosts
RECURSIVE ProcessLoop_CountsAll(_, _, _, _, _, _)
ProcessLoop_CountsAll(items, maxPosts, t, i, keys, posts) ==
    IF i > Len(items) THEN [posts |-> posts, keys |-> keys, examined |-> i - 1]
    ELSE IF i - 1 >= maxPosts
         THEN [posts |-> posts, keys |-> keys, examined |-> i - 1]
    ELSE IF items[i].type # "Post"
         THEN ProcessLoop_CountsAll(items, maxPosts, t, i + 1, keys, posts)
    ELSE IF MapHas(keys, DedupKey(items[i]))
         THEN ProcessLoop_CountsAll(items, maxPosts, t, i + 1, keys, posts)
    ELSE ProcessLoop_CountsAll(items, maxPosts, t, i + 1,
                               Append(keys, DedupKey(items[i])),
                               Append(posts, MakePost(items[i], t)))

\* the loop of processPosts, lines 86-107, from item i on.  keys and posts
\* are the Map's keys and values in insertion order, so Len(posts) is the
\* counter "processed"; examined counts the items the loop has looked at
\* by the time it ends (line 87 breaks before looking at the next one).
RECURSIVE ProcessLoop(_, _, _, _, _, _)
ProcessLoop(items, maxPosts, t, i, keys, posts) ==
    IF i > Len(items) THEN [posts |-> posts, keys |-> keys, examined |-> i - 1]
    ELSE IF Len(posts) >= maxPosts
         THEN [posts |-> posts, keys |-> keys, examined |-> i - 1]
    ELSE IF items[i].type # "Post"
         THEN ProcessLoop(items, maxPosts, t, i + 1, keys, posts)
    ELSE IF MapHas(keys, DedupKey(items[i]))
         THEN ProcessLoop(items, maxPosts, t, i + 1, keys, posts)
    ELSE ProcessLoop(items, maxPosts, t, i + 1,
                     Append(keys, DedupKey(items[i])),
                     Append(posts, MakePost(items[i], t)))

\* processPosts returning the Map's values newest first
processPosts_Reversed(items, maxPosts, t) ==
    LET posts == ProcessLoop(items, maxPosts, t, 1, <<>>, <<>>).posts
    IN  [i \in 1..Len(posts) |-> posts[Len(posts) + 1 - i]]

\* processPosts(items, maxPosts): Array.from(posts.values()), line 108
processPosts(items, maxPosts, t) ==
    ProcessLoop(items, maxPosts, t, 1, <<>>, <<>>).posts

-----------------------------------------------------------------------------
(* The string literals of fetchInstagramPosts *)

KEY_PREFIX == <<"i", "n", "s", "t", "a", "g", "r", "a", "m", ":">>

KEY_SEP == <<":">>

MSG_INVALID == <<"I", "n", "v", "a", "l", "i", "d", " ", "u", "s", "e", "r", "n", "a", "m", "e">>

MSG_RATE_LIMIT == <<"R", "a", "t", "e", " ", "l", "i", "m", "i", "t", " ", "e", "x", "c", "e", "e", "d", "e", "d">>

MSG_ACTOR_TIMEOUT == <<"A", "c", "t", "o", "r", " ", "c", "a", "l", "l", " ", "t", "i", "m", "e", "o", "u", "t">>

MSG_TIMEOUT == <<"S", "c", "r", "a", "p", "i", "n", "g", " ", "t", "i", "m", "e", "o", "u", "t", ".", " ", "P", "l", "e", "a", "s", "e", " ", "t", "r", "y", " ", "a", "g", "a", "i", "n", " ", "l", "a", "t", "e", "r", ".">>

MSG_FETCH_PREFIX == <<"F", "a", "i", "l", "e", "d", " ", "t", "o", " ", "f", "e", "t", "c", "h", " ", "d", "a", "t", "a", ":", " ">>

STR_TIMEOUT == <<"t", "i", "m", "e", "o", "u", "t">>

-----------------------------------------------------------------------------
(* fetchInstagramPosts, src/scrapper.js lines 114-211 *)

NoError == [code |-> "undefined", message |-> <<>>]

NoResult == [kind |-> "none", posts |-> NoPosts, error |-> NoError, via |-> "none"]

Returned(posts, via) == [kind |-> "posts", posts |-> posts, error |-> NoError, via |-> via]

Thrown(err, via) == [kind |-> "error", posts |-> NoPosts, error |-> err, via |-> via]

IdleReq ==
    [pc |-> "idle", limit |-> 0, key |-> <<>>, deadline |-> 0,
     called |-> FALSE, actor |-> "none", res |-> NoResult]

\* the argument taken as it comes, without trim()
Normalize_NoTrim(username) == username

\* const normalized = String(username).trim()
Normalize(username) == Trim(username)

\* !normalized || normalized.length > 50
InvalidUsername(normalized) == normalized = <<>> \/ Len(normalized) > MAX_USERNAME

\* Math.min(Math.max(1, Number(maxPosts) || 10), CONFIG.MAX_POSTS)
PostsLimit(maxPosts) ==
    Min(Max(1, IF maxPosts = 0 THEN DEFAULT_LIMIT ELSE maxPosts), MAX_POSTS)

\* `instagram:${normalized.toLowerCase()}:${postsLimit}`
CacheKey(normalized, postsLimit) ==
    KEY_PREFIX \o ToLowerCase(normalized) \o KEY_SEP \o NumToString(postsLimit)

\* the catch block, lines 196-210: the error rethrown for a caught err
MapError(err) ==
    IF err.message # <<>> /\ Includes(ToLowerCase(err.message), STR_TIMEOUT)
    THEN [code |-> "TIMEOUT", message |-> MSG_TIMEOUT]
    ELSE IF err.code = "RATE_LIMIT" THEN err
    ELSE [code |-> "FETCH_ERROR", message |-> MSG_FETCH_PREFIX \o err.message]

\* the guard rejecting with a message that does not say "timeout"
ActorTimeoutError_TimedOut == [code |-> "undefined", message |-> <<"A", "c", "t", "o", "r", " ", "c", "a", "l", "l", " ", "t", "i", "m", "e", "d", " ", "o", "u", "t">>]

\* the error the local guard rejects with, line 172
ActorTimeoutError == [code |-> "undefined", message |-> MSG_ACTOR_TIMEOUT]

\* the history of actor calls per window follows the limiter's window
CallsAfter(lim, started) ==
    (IF lim.lastRefill # lastRefill THEN 0 ELSE windowCalls) + started

\* line 117: throw new Error("Invalid username")
RejectInvalid(r) ==
    /\ req' = [req EXCEPT ![r] =
           [IdleReq EXCEPT !.pc = "done",
                           !.res = Thrown([code |-> "undefined",
                                           message |-> MSG_INVALID], "validation")]]
    /\ UNCHANGED <<tokens, lastRefill, cache, windowCalls>>

\* a cache hit that is charged to the limiter like a miss
ReturnCached_TakesToken(r, postsLimit, cacheKey, cached) ==
    /\ req' = [req EXCEPT ![r] =
           [IdleReq EXCEPT !.pc = "done", !.limit = postsLimit, !.key = cacheKey,
                           !.res = Returned(cached.v, "cache")]]
    /\ cache' = cached.cache
    /\ tokens' = tokens - 1
    /\ UNCHANGED <<lastRefill, windowCalls>>

\* lines 124-127: the cache holds the key; return what it holds
ReturnCached(r, postsLimit, cacheKey, cached) ==
    /\ req' = [req EXCEPT ![r] =
           [IdleReq EXCEPT !.pc = "done", !.limit = postsLimit, !.key = cacheKey,
                           !.res = Returned(cached.v, "cache")]]
    /\ cache' = cached.cache
    /\ UNCHANGED <<tokens, lastRefill, windowCalls>>

\* lines 130-136: no token; read the tokens left for the log and throw
RejectRateLimited(r, postsLimit, cacheKey, cached, taken) ==
    LET left == getTokensLeft(taken.lim, now)
    IN  /\ req' = [req EXCEPT ![r] =
               [IdleReq EXCEPT !.pc = "done", !.limit = postsLimit, !.key = cacheKey,
                               !.res = Thrown([code |-> "RATE_LIMIT",
                                               message |-> MSG_RATE_LIMIT], "limiter")]]
        /\ cache' = cached.cache
        /\ tokens' = left.lim.tokens
        /\ lastRefill' = left.lim.lastRefill
        /\ windowCalls' = CallsAfter(left.lim, 0)

\* an actor call started without the token being taken from the bucket
StartActor_KeepsToken(r, postsLimit, cacheKey, cached, taken) ==
    /\ req' = [req EXCEPT ![r] =
           [IdleReq EXCEPT !.pc = "awaitActor", !.limit = postsLimit, !.key = cacheKey,
                           !.called = TRUE, !.actor = "pending",
                           !.deadline = now + ACTOR_TIMEOUT]]
    /\ cache' = cached.cache
    /\ tokens' = refill(Limiter, now).tokens
    /\ lastRefill' = taken.lim.lastRefill
    /\ windowCalls' = CallsAfter(taken.lim, 1)

\* lines 138-175: a token was taken; start the actor call, arm the guard's
\* timer and wait for the first of the two
StartActor(r, postsLimit, cacheKey, cached, taken) ==
    /\ req' = [req EXCEPT ![r] =
           [IdleReq EXCEPT !.pc = "awaitActor", !.limit = postsLimit, !.key = cacheKey,
                           !.called = TRUE, !.actor = "pending",
                           !.deadline = now + ACTOR_TIMEOUT]]
    /\ cache' = cached.cache
    /\ tokens' = taken.lim.tokens
    /\ lastRefill' = taken.lim.lastRefill
    /\ windowCalls' = CallsAfter(taken.lim, 1)

\* Lines 114-175, run without interruption up to the first await: validate,
\* read the cache, take a token, start the actor call.
FetchBegin(r, username, maxPosts) ==
    LET normalized == Normalize(username)
        postsLimit == PostsLimit(maxPosts)
        cacheKey   == CacheKey(normalized, postsLimit)
        cached     == CacheGet(cache, cacheKey, now)
        taken      == tryRemoveTokens(Limiter, now, 1)
    IN  IF InvalidUsername(normalized) THEN RejectInvalid(r)
        ELSE IF cached.hit THEN ReturnCached(r, postsLimit, cacheKey, cached)
        ELSE IF ~taken.ok THEN RejectRateLimited(r, postsLimit, cacheKey, cached, taken)
        ELSE StartActor(r, postsLimit, cacheKey, cached, taken)

\* a call of fetchInstagramPosts(username, maxPosts) on a free slot
Fetch(r, username, maxPosts) ==
    /\ req[r].pc \in {"idle", "done"}
    /\ FetchBegin(r, username, maxPosts)
    /\ UNCHANGED <<now, ticks, ret, others>>

\* a catch block that remembers the failure: it caches an empty result
Fail_CachesFailure(r, err, via, actorState) ==
    /\ req' = [req EXCEPT ![r].pc = "done", ![r].actor = actorState,
                          ![r].res = Thrown(MapError(err), via)]
    /\ cache' = CacheSet(cache, req[r].key, NoPosts, now)
    /\ UNCHANGED <<tokens, lastRefill, windowCalls>>

\* a catch block that hands the request's token back to the limiter
Fail_Refunds(r, err, via, actorState) ==
    /\ req' = [req EXCEPT ![r].pc = "done", ![r].actor = actorState,
                          ![r].res = Thrown(MapError(err), via)]
    /\ tokens' = tokens + 1
    /\ windowCalls' = windowCalls - 1
    /\ UNCHANGED <<cache, lastRefill>>

\* the catch block is entered with err: the request ends with MapError(err);
\* the block writes neither the cache nor the limiter
Fail(r, err, via, actorState) ==
    /\ req' = [req EXCEPT ![r].pc = "done", ![r].actor = actorState,
                          ![r].res = Thrown(MapError(err), via)]
    /\ UNCHANGED <<cache, tokens, lastRefill, windowCalls>>

\* line 175: the actor call resolves first; line 178 starts the retrieval
ActorResolve(r) ==
    /\ req[r].pc = "awaitActor"
    /\ req' = [req EXCEPT ![r].pc = "awaitDataset", ![r].actor = "settled"]
    /\ UNCHANGED <<now, ticks, tokens, lastRefill, cache, windowCalls, nreq, ret, others>>

\* line 175: the actor call rejects first, with a provider error
ActorReject(r, err) ==
    /\ req[r].pc = "awaitActor"
    /\ Fail(r, err, "actor", "settled")
    /\ UNCHANGED <<now, ticks, nreq, ret, others>>

\* lines 171-175: the guard's timer fires first; the actor call stays pending
ActorTimeout(r) ==
    /\ req[r].pc = "awaitActor"
    /\ now >= req[r].deadline
    /\ Fail(r, ActorTimeoutError, "timer", "pending")
    /\ UNCHANGED <<now, ticks, nreq, ret, others>>

\* a late settlement that goes on to line 178 and starts the retrieval
ActorSettleLate_Retrieves(r) ==
    /\ req[r].pc = "done"
    /\ req[r].actor = "pending"
    /\ req' = [req EXCEPT ![r].actor = "settled", ![r].pc = "awaitDataset"]
    /\ UNCHANGED <<now, ticks, tokens, lastRefill, cache, windowCalls, nreq, ret, others>>

\* the actor call of a request that has already timed out settles: the race
\* of line 175 is over and nothing is listening
ActorSettleLate(r) ==
    /\ req[r].pc = "done"
    /\ req[r].actor = "pending"
    /\ req' = [req EXCEPT ![r].actor = "settled"]
    /\ UNCHANGED <<now, ticks, tokens, lastRefill, cache, windowCalls, nreq, ret, others>>

\* listItems({ limit: postsLimit }): at most limit items of the dataset
ListItems(dataset, limit) == SubSeq(dataset, 1, Min(Len(dataset), limit))

\* the result cached whether or not it holds a post
StoreResult_Always(c, cacheKey, posts, t) == CacheSet(c, cacheKey, posts, t)

\* a store that leaves an entry alone once the key has one
StoreResult_KeepsFirst(c, cacheKey, posts, t) ==
    IF Len(posts) > 0 /\ cacheKey \notin DOMAIN c THEN CacheSet(c, cacheKey, posts, t) ELSE c

\* line 190: if (posts.length > 0) cache.set(cacheKey, posts)
StoreResult(c, cacheKey, posts, t) ==
    IF Len(posts) > 0 THEN CacheSet(c, cacheKey, posts, t) ELSE c

\* lines 178-195: the retrieval resolves; normalise, cache when non-empty, return
DatasetResolve(r, dataset) ==
    /\ req[r].pc = "awaitDataset"
    /\ LET items == ListItems(dataset, req[r].limit)
           posts == processPosts(items, req[r].limit, now)
       IN  /\ cache' = StoreResult(cache, req[r].key, posts, now)
           /\ req' = [req EXCEPT ![r].pc = "done", ![r].res = Returned(posts, "dataset")]
    /\ UNCHANGED <<now, ticks, tokens, lastRefill, windowCalls, nreq, ret, others>>

\* line 178: the retrieval rejects with a provider error
DatasetReject(r, err) ==
    /\ req[r].pc = "awaitDataset"
    /\ Fail(r, err, "dataset", "settled")
    /\ UNCHANGED <<now, ticks, nreq, ret, others>>

\* parseInt(maxPosts) || 25, line 247; 0 stands for every value that
\* parseInt turns into 0 or NaN
HANDLER_DEFAULT_LIMIT == 25

MSG_USERNAME_REQUIRED == <<"V", "a", "l", "i", "d", " ", "u", "s", "e", "r", "n", "a", "m", "e", " ", "i", "s", " ", "r", "e", "q", "u", "i", "r", "e", "d">>

\* Math.min(Math.max(1, parseInt(maxPosts) || 25), CONFIG.MAX_POSTS)
HandlerLimit(maxPosts) ==
    Min(Max(1, IF maxPosts = 0 THEN HANDLER_DEFAULT_LIMIT ELSE maxPosts), MAX_POSTS)

\* lines 257-258: the status of the response for an error of the fetch
StatusCode(err) ==
    IF err.code = "TIMEOUT" THEN 408 ELSE IF err.code = "RATE_LIMIT" THEN 429 ELSE 500

\* POST /, lines 238-248, up to the await of fetchInstagramPosts: answer
\* 400 for a missing or blank username, else call
\* fetchInstagramPosts(username.trim(), limit)
PostRoot(r, username, maxPosts) ==
    IF Trim(username) = <<>>
    THEN /\ req[r].pc \in {"idle", "done"}
         /\ req' = [req EXCEPT ![r] =
                [IdleReq EXCEPT !.pc = "done",
                                !.res = Thrown([code |-> "400",
                                                message |-> MSG_USERNAME_REQUIRED],
                                               "handler")]]
         /\ UNCHANGED <<now, ticks, tokens, lastRefill, cache, windowCalls, ret, others>>
    ELSE Fetch(r, Trim(username), HandlerLimit(maxPosts))

-----------------------------------------------------------------------------
(* The other endpoints and the environment *)

NoCall == [op |-> "none", n |-> 0, ok |-> FALSE, value |-> 0,
           before |-> [tokens |-> 0, lastRefill |-> 0], at |-> 0]

\* GET /health, lines 216-223: reports getTokensLeft()
Health ==
    LET left == getTokensLeft(Limiter, now)
    IN  /\ tokens' = left.lim.tokens
        /\ lastRefill' = left.lim.lastRefill
        /\ windowCalls' = CallsAfter(left.lim, 0)
        /\ UNCHANGED <<now, ticks, cache, req, nreq, ret, others>>

\* new RegExp(pattern).test(key) for a pattern anchored at the start and
\* made of literal characters and ".", which matches any character but a
\* line break
RegExpTest(pattern, key) ==
    /\ Len(key) >= Len(pattern)
    /\ \A i \in 1..Len(pattern) :
          IF pattern[i] = "." THEN key[i] \notin {"\n", "\r"} ELSE key[i] = pattern[i]

\* the keys DELETE /cache/:username removes, lines 228-229
KeysOfUsername(c, username) ==
    {k \in CacheKeys(c) :
        RegExpTest(KEY_PREFIX \o ToLowerCase(username) \o KEY_SEP, k)}

\* DELETE /cache/:username?, lines 225-236; the empty username is the
\* request without the parameter
DeleteCache(username) ==
    /\ LET keys == IF username # <<>> THEN KeysOfUsername(cache, username)
                   ELSE CacheKeys(cache)
       IN  /\ cache' = CacheDel(cache, keys)
           /\ ret' = [NoCall EXCEPT !.op = "delete", !.value = Cardinality(keys)]
    /\ UNCHANGED <<now, ticks, tokens, lastRefill, req, windowCalls, nreq, others>>

\* NodeCache's periodic check deletes the expired entries
CheckData ==
    /\ cache' = CacheCheckData(cache, now)
    /\ cache' # cache
    /\ UNCHANGED <<now, ticks, tokens, lastRefill, req, windowCalls, nreq, ret, others>>

\* the clock advances by d ms
Tick(d) ==
    /\ ticks < MaxTicks
    /\ now' = now + d
    /\ ticks' = ticks + 1
    /\ UNCHANGED <<tokens, lastRefill, cache, req, windowCalls, nreq, ret, others>>

-----------------------------------------------------------------------------
(* The inputs the model draws: arguments of requests, what the provider     *)
(* returns, and by how much the clock advances.                             *)

U_NASA == <<"n", "a", "s", "a">>

U_NASA_MIXED == <<" ", "N", "A", "S", "A", " ">>

U_EMPTY == <<>>

U_BLANK == <<" ", " ">>

U_LONG == [i \in 1..(MAX_USERNAME + 1) |-> "a"]

Usernames == {U_NASA, U_NASA_MIXED, U_EMPTY, U_BLANK, U_LONG}

Limits == {1, 5}

Item(type, id, timestamp, title, caption) ==
    [type |-> type, id |-> id, shortCode |-> <<>>, timestamp |-> timestamp,
     title |-> title, caption |-> caption,
     hashtags |-> [isArray |-> FALSE, v |-> <<>>]]

\* a post without title or hashtags array; its caption is "Up\n#M #m"
PostItem(n) == Item("Post", <<"p", Digits[n + 1]>>, 1000 + n, <<>>, <<"U", "p", "\n", "#", "M", " ", "#", "m">>)

VideoItem == Item("Video", <<"v", "1">>, 0, <<>>, <<>>)

NullItem == Item("null", <<>>, 0, <<>>, <<>>)

\* five posts with distinct ids
D_FIVE == [n \in 1..5 |-> PostItem(n)]

\* extendOutputFunction of the actor input, lines 154-165: what the actor
\* stores for a scraped item when it applies the function.  The hashtags
\* are the caption's matches without "#", lower-cased, repeats kept.
extendOutputFunction(item) ==
    IF item.type # "Post" THEN NullItem
    ELSE [type      |-> item.type,
          id        |-> item.id,
          shortCode |-> item.shortCode,
          timestamp |-> item.timestamp,
          title     |-> DeriveTitle(item),
          caption   |-> item.caption,
          hashtags  |-> [isArray |-> TRUE,
                         v |-> LET m == MatchTags(item.caption, 1)
                               IN  [i \in 1..Len(m) |-> ToLowerCase(Tail(m[i]))]]]

\* a record that is no post, then the same post twice, then another post,
\* this one as extendOutputFunction stores it
D_MIXED == <<VideoItem, PostItem(1), PostItem(1), extendOutputFunction(PostItem(2))>>

\* records of which none is a post
D_NOPOST == <<VideoItem, NullItem>>

D_EMPTY == <<>>

Datasets == {D_FIVE, D_MIXED, D_NOPOST, D_EMPTY}

E_FAILED == [code |-> "undefined", message |-> <<"f", "a", "i", "l", "e", "d">>]

E_NETWORK == [code |-> "ETIMEDOUT", message |-> <<"E", "T", "I", "M", "E", "D", "O", "U", "T">>]

ProviderErrors == {E_FAILED, E_NETWORK}

TickSteps == {ACTOR_TIMEOUT, CACHE_TTL * 1000, REFILL_INTERVAL}

DeleteArgs == {<<>>, U_NASA, U_NASA_MIXED}

\* all sequences over S of length at most n
SeqsUpTo(S, n) == UNION {[1..k -> S] : k \in 0..n}

\* the raw items direct calls of processPosts are made of: posts that carry
\* an id, only a shortCode, only a timestamp, only a caption or only a
\* title, some of them with the same key, and two records that are no post
RawItems ==
    { Item("Post", <<"a">>, 5, <<>>, <<>>),
      Item("Post", <<"b">>, 5, <<>>, <<"#", "x">>),
      [Item("Post", <<>>, 0, <<>>, <<>>) EXCEPT !.shortCode = <<"a">>],
      Item("Post", <<>>, 7, <<>>, <<>>),
      Item("Post", <<>>, 0, <<>>, <<"t", "\n", "u">>),
      [Item("Post", <<>>, 0, <<"t">>, <<>>) EXCEPT !.hashtags = [isArray |-> TRUE, v |-> <<>>]],
      VideoItem,
      NullItem }

\* the pieces the captions of direct calls of extractHashtags are made of
Pieces ==
    { <<"#", "a">>, <<"#", "A">>, <<"#", "b", "_">>, <<"#", "א">>,
      <<"#">>, <<" ">>, <<"x">> }

\* the pieces of ps, joined
RECURSIVE Join(_)
Join(ps) == IF ps = <<>> THEN <<>> ELSE Head(ps) \o Join(Tail(ps))

-----------------------------------------------------------------------------
(* Direct calls of the two pure helpers of src/scrapper.js *)

NoApply ==
    [fn |-> "none", at |-> 0, items |-> <<>>, n |-> 0, text |-> <<>>,
     posts |-> <<>>, keys |-> <<>>, examined |-> 0, tags |-> <<>>]

-----------------------------------------------------------------------------
(* scrapeInstagramPosts of src/unnamed/part_004 and part_005: one request   *)
(* to the extraction provider, then the posts are read out of the HTML.    *)
(* The two files differ in the assignment they look for and in how they    *)
(* treat what they find.  A document is [marker, json]: which assignment    *)
(* html.match finds in it, and what JSON.parse makes of the captured text:  *)
(* a SyntaxError (ok = FALSE) or a value, of which the model keeps what     *)
(* lies at the path the code reads, edges = [kind, v] with kind "absent",   *)
(* "object" (a value that is not an array) or "array".  An edge is          *)
(* [isNull, captionIsString, caption, shortcode]; an edge without node has  *)
(* the empty caption and shortcode.                                         *)

\* the variables of src/scrapper.js's server
server == <<now, ticks, tokens, lastRefill, cache, req, windowCalls, nreq, ret>>

Variants == {"part_004", "part_005"}

\* the assignment the variant's regular expression matches
Marker(variant) == IF variant = "part_005" THEN "sharedData" ELSE "additionalData"

MSG_NO_KEY(variant) ==
    IF variant = "part_005" THEN <<"Z", "Y", "T", "E", "_", "A", "P", "I", "_", "K", "E", "Y", " ", "i", "s", " ", "n", "o", "t", " ", "s", "e", "t">>
    ELSE <<"Z", "Y", "T", "E", "_", "A", "P", "I", "_", "K", "E", "Y", " ", "i", "s", " ", "n", "o", "t", " ", "s", "e", "t", ".", " ", "P", "l", "e", "a", "s", "e", " ", "s", "e", "t", " ", "i", "t", " ", "i", "n", " ", "e", "n", "v", "i", "r", "o", "n", "m", "e", "n", "t", " ", "v", "a", "r", "i", "a", "b", "l", "e", "s", ".">>

MSG_BAD_USERNAME(variant) ==
    IF variant = "part_005" THEN <<"I", "n", "v", "a", "l", "i", "d", " ", "u", "s", "e", "r", "n", "a", "m", "e">>
    ELSE <<"I", "n", "v", "a", "l", "i", "d", " ", "u", "s", "e", "r", "n", "a", "m", "e", " ", "p", "r", "o", "v", "i", "d", "e", "d">>

MSG_EXTRACT_FAILED == <<"Z", "y", "t", "e", " ", "e", "x", "t", "r", "a", "c", "t", " ", "f", "a", "i", "l", "e", "d", ":", " ", "5", "0", "0", " ", "-", " ", "{", "}">>

MSG_NO_RESPONSE == <<"N", "o", " ", "r", "e", "s", "p", "o", "n", "s", "e", " ", "f", "r", "o", "m", " ", "Z", "y", "t", "e", " ", "e", "x", "t", "r", "a", "c", "t", " ", "(", "n", "e", "t", "w", "o", "r", "k", "/", "t", "i", "m", "e", "o", "u", "t", "s", ")">>

MSG_CALL_ERROR(variant) ==
    IF variant = "part_005" THEN <<"Z", "y", "t", "e", " ", "c", "a", "l", "l", " ", "e", "r", "r", "o", "r", ":", " ", "x">>
    ELSE <<"E", "r", "r", "o", "r", " ", "c", "a", "l", "l", "i", "n", "g", " ", "Z", "y", "t", "e", " ", "e", "x", "t", "r", "a", "c", "t", ":", " ", "x">>

POST_PREFIX == <<"P", "o", "s", "t", " ">>

URL_PREFIX == <<"h", "t", "t", "p", "s", ":", "/", "/", "w", "w", "w", ".", "i", "n", "s", "t", "a", "g", "r", "a", "m", ".", "c", "o", "m", "/", "p", "/">>

\* String.prototype.replace(c, ""): the first c is dropped
ReplaceFirst(s, c) ==
    IF \E i \in 1..Len(s) : s[i] = c
    THEN LET i == CHOOSE k \in 1..Len(s) : s[k] = c /\ \A j \in 1..(k - 1) : s[j] # c
         IN  SubSeq(s, 1, i - 1) \o SubSeq(s, i + 1, Len(s))
    ELSE s

\* String(username).replace("@", "").trim()
CleanUsername(username) == Trim(ReplaceFirst(username, "@"))

\* a character of the class [A-Za-z0-9_]
IsWordChar(c) ==
    \/ \E i \in 1..26 : c = UpperAlpha[i] \/ c = LowerAlpha[i]
    \/ \E i \in 1..10 : c = Digits[i]
    \/ c = "_"

RECURSIVE WordRunEnd(_, _)
WordRunEnd(s, i) ==
    IF i + 1 <= Len(s) /\ IsWordChar(s[i + 1]) THEN WordRunEnd(s, i + 1) ELSE i

\* caption.match(/#([A-Za-z0-9_]+)/g) from position i on
RECURSIVE MatchWordTags(_, _)
MatchWordTags(s, i) ==
    IF i > Len(s) THEN <<>>
    ELSE IF s[i] = "#" /\ i + 1 <= Len(s) /\ IsWordChar(s[i + 1])
         THEN <<SubSeq(s, i, WordRunEnd(s, i + 1))>>
              \o MatchWordTags(s, WordRunEnd(s, i + 1) + 1)
         ELSE MatchWordTags(s, i + 1)

\* (caption.match(...) || []).map(h => h.substring(1)): no folding of case,
\* repeats kept
ScrapedHashtags(caption) ==
    LET m == MatchWordTags(caption, 1) IN [i \in 1..Len(m) |-> Tail(m[i])]

\* edge.node of a null edge, or caption.split of a caption that is not a
\* string, is a TypeError
EdgeThrows(edge) == edge.isNull \/ ~edge.captionIsString

\* the post pushed for the edge at position i (idx + 1)
EdgePost(edge, i) ==
    [title    |-> IF edge.caption # <<>>
                  THEN Trim(SubSeq(FirstLine(edge.caption), 1,
                                   Min(TITLE_MAX, Len(FirstLine(edge.caption)))))
                  ELSE POST_PREFIX \o NumToString(i),
     url      |-> IF edge.shortcode # <<>>
                  THEN URL_PREFIX \o edge.shortcode \o <<"/">>
                  ELSE <<>>,
     caption  |-> edge.caption,
     hashtags |-> ScrapedHashtags(edge.caption)]

\* edges.forEach(...): the posts pushed, and whether the callback threw
RECURSIVE ForEachEdge(_, _, _)
ForEachEdge(edges, i, posts) ==
    IF i > Len(edges) THEN [posts |-> posts, threw |-> FALSE]
    ELSE IF EdgeThrows(edges[i]) THEN [posts |-> posts, threw |-> TRUE]
    ELSE ForEachEdge(edges, i + 1, Append(posts, EdgePost(edges[i], i)))

\* the body of the try block: part_005 lines 70-88, part_004 lines 69-89.
\* part_005 reads the edges only if Array.isArray(edges); part_004 calls
\* (edges || []).forEach, a TypeError when edges is not an array.
TryBlock(variant, html) ==
    IF html.marker # Marker(variant) THEN [posts |-> <<>>, threw |-> FALSE]
    ELSE IF ~html.json.ok THEN [posts |-> <<>>, threw |-> TRUE]
    ELSE IF html.json.edges.kind = "absent" THEN [posts |-> <<>>, threw |-> FALSE]
    ELSE IF html.json.edges.kind = "object"
         THEN [posts |-> <<>>, threw |-> variant = "part_004"]
    ELSE ForEachEdge(html.json.edges.v, 1, <<>>)

\* a parser whose catch block rethrows
ParseDocument_Rethrows(variant, html) ==
    IF TryBlock(variant, html).threw
    THEN Thrown([code |-> "undefined", message |-> <<"p", "a", "r", "s", "e">>], "parse")
    ELSE Returned(TryBlock(variant, html).posts, "parse")

\* try { ... } catch { console.warn(...) } return posts: part_005 lines
\* 68-93, part_004 lines 67-94
ParseDocument(variant, html) == Returned(TryBlock(variant, html).posts, "parse")

NoJson == [ok |-> FALSE, edges |-> [kind |-> "absent", v |-> <<>>]]

\* html = "": the response had no httpResponseBody
EmptyHtml == [marker |-> "none", json |-> NoJson]

IdleScrape ==
    [pc |-> "idle", variant |-> "none", resolved |-> FALSE, html |-> EmptyHtml,
     res |-> NoResult]

\* lines 17-29 of part_005, 20-31 of part_004, up to the await of
\* axios.post; keySet tells whether the environment gave ZYTE_API_KEY
ScrapeStart(variant, keySet, username) ==
    /\ scrape.pc = "idle"
    /\ scrape' =
         IF ~keySet
         THEN [IdleScrape EXCEPT !.pc = "done", !.variant = variant,
                  !.res = Thrown([code |-> "undefined",
                                  message |-> MSG_NO_KEY(variant)], "config")]
         ELSE IF CleanUsername(username) = <<>>
         THEN [IdleScrape EXCEPT !.pc = "done", !.variant = variant,
                  !.res = Thrown([code |-> "undefined",
                                  message |-> MSG_BAD_USERNAME(variant)], "validation")]
         ELSE [IdleScrape EXCEPT !.pc = "awaitExtract", !.variant = variant]
    /\ UNCHANGED <<server, call, poll, v2>>

\* axios.post resolves; data.httpResponseBody is absent (hasBody = FALSE)
\* or decodes to html.  The rest of the function runs without an await.
ExtractResolve(hasBody, html) ==
    /\ scrape.pc = "awaitExtract"
    /\ LET h == IF hasBody THEN html ELSE EmptyHtml
       IN  scrape' = [scrape EXCEPT !.pc = "done", !.resolved = TRUE, !.html = h,
                                    !.res = ParseDocument(scrape.variant, h)]
    /\ UNCHANGED <<server, call, poll, v2>>

\* axios.post rejects: with a response, with no response, or before the
\* request was sent
ExtractReject(kind) ==
    /\ scrape.pc = "awaitExtract"
    /\ scrape' = [scrape EXCEPT !.pc = "done",
                    !.res = Thrown([code |-> "undefined",
                                    message |-> CASE kind = "response" -> MSG_EXTRACT_FAILED
                                                  [] kind = "request"  -> MSG_NO_RESPONSE
                                                  [] OTHER -> MSG_CALL_ERROR(scrape.variant)],
                                   "extract")]
    /\ UNCHANGED <<server, call, poll, v2>>

-----------------------------------------------------------------------------
(* The polling fetchInstagramPosts of src/unnamed/part_000, lines 34-91:    *)
(* the actor run is started, its status is read every 5 s until it is       *)
(* terminal, and the dataset is read if the run succeeded.  poll.job is     *)
(* the status of the run on the platform, poll.last the status the last     *)
(* read returned, poll.polls the number of reads answered (it stops         *)
(* counting at MaxPolls), poll.retrieved whether listItems was called.      *)
(* The function reads no clock, so none is modelled here: the 5 s timer     *)
(* is the step Wake.                                                        *)

TerminalStatuses == {"SUCCEEDED", "FAILED", "ABORTED", "TIMED-OUT"}

RunningStatuses == {"READY", "RUNNING"}

MSG_RUN_FAILED == <<"A", "p", "i", "f", "y", " ", "r", "u", "n", " ", "f", "a", "i", "l", "e", "d", " ", "w", "i", "t", "h", " ", "s", "t", "a", "t", "u", "s", " ">>

\* `Apify run failed with status ${finishedRun.status}`
RunFailedMessage(status) ==
    MSG_RUN_FAILED
    \o (CASE status = "FAILED"  -> <<"F", "A", "I", "L", "E", "D">>
          [] status = "ABORTED" -> <<"A", "B", "O", "R", "T", "E", "D">>
          [] OTHER              -> <<"T", "I", "M", "E", "D", "-", "O", "U", "T">>)

\* username.trim().replace(/^@/, "")
StripAt(username) ==
    LET t == Trim(username)
    IN  IF t # <<>> /\ Head(t) = "@" THEN Tail(t) ELSE t

\* extractHashtags of part_000, lines 19-32
extractHashtagsAscii(text) ==
    IF text = <<>> THEN <<>>
    ELSE LET m == MatchWordTags(text, 1)
         IN  SetOrder([i \in 1..Len(m) |-> ToLowerCase(Tail(m[i]))])

\* items.filter(Boolean)
RECURSIVE FilterBoolean(_)
FilterBoolean(items) ==
    IF items = <<>> THEN <<>>
    ELSE IF Head(items).isNull THEN FilterBoolean(Tail(items))
    ELSE <<Head(items)>> \o FilterBoolean(Tail(items))

\* lines 80-90: items.filter(Boolean).slice(0, maxPosts).map(...)
MapItems(items, maxPosts) ==
    LET kept == FilterBoolean(items)
    IN  [i \in 1..Min(maxPosts, Len(kept)) |->
            [title    |-> kept[i].title,
             caption  |-> kept[i].caption,
             url      |-> kept[i].url,
             hashtags |-> IF kept[i].hashtags.isArray THEN kept[i].hashtags.v
                          ELSE extractHashtagsAscii(kept[i].caption)]]

IdlePoll ==
    [pc |-> "idle", clean |-> <<>>, maxPosts |-> 0, job |-> "none", last |-> "none",
     polls |-> 0, retrieved |-> FALSE, res |-> NoResult]

\* lines 34-62, up to the await of client.actor(...).call(input)
PollStart(username, maxPosts) ==
    /\ poll.pc = "idle"
    /\ poll' = [IdlePoll EXCEPT !.pc = "awaitCall", !.clean = StripAt(username),
                                !.maxPosts = maxPosts]
    /\ UNCHANGED <<server, call, scrape, v2>>

\* line 62 resolves with a run whose status is status; line 67 is reached
CallResolve(status) ==
    /\ poll.pc = "awaitCall"
    /\ poll' = [poll EXCEPT !.pc = "awaitGet", !.job = status]
    /\ UNCHANGED <<server, call, scrape, v2>>

\* line 62 rejects: the error leaves the function
CallReject(err) ==
    /\ poll.pc = "awaitCall"
    /\ poll' = [poll EXCEPT !.pc = "done", !.res = Thrown(err, "actor")]
    /\ UNCHANGED <<server, call, scrape, v2>>

\* the platform moves the run on; a terminal status is final
JobAdvance(status) ==
    /\ poll.job \in RunningStatuses
    /\ status # "READY" /\ status # poll.job
    /\ poll' = [poll EXCEPT !.job = status]
    /\ UNCHANGED <<server, call, scrape, v2>>

\* a read answers FAILED, ABORTED or TIMED-OUT and listItems is called all
\* the same
AfterGet_RetrievesAlways(status) ==
    [poll EXCEPT !.last = status, !.polls = Min(poll.polls + 1, MaxPolls),
                 !.pc = IF status \in TerminalStatuses THEN "awaitItems" ELSE "sleep",
                 !.retrieved = status \in TerminalStatuses]

\* lines 67-78 after client.run(run.id).get() has answered status: leave
\* the loop on a terminal status, throw unless it is SUCCEEDED, else call
\* listItems; on any other status start the 5 s timer
AfterGet(status) ==
    IF status \notin TerminalStatuses
    THEN [poll EXCEPT !.last = status, !.polls = Min(poll.polls + 1, MaxPolls),
                      !.pc = "sleep"]
    ELSE IF status # "SUCCEEDED"
    THEN [poll EXCEPT !.last = status, !.polls = Min(poll.polls + 1, MaxPolls),
                      !.pc = "done",
                      !.res = Thrown([code |-> "undefined",
                                      message |-> RunFailedMessage(status)], "status")]
    ELSE [poll EXCEPT !.last = status, !.polls = Min(poll.polls + 1, MaxPolls),
                      !.pc = "awaitItems", !.retrieved = TRUE]

\* line 67 resolves with the run's present status
GetResolve ==
    /\ poll.pc = "awaitGet"
    /\ poll' = AfterGet(poll.job)
    /\ UNCHANGED <<server, call, scrape, v2>>

\* line 67 rejects
GetReject(err) ==
    /\ poll.pc = "awaitGet"
    /\ poll' = [poll EXCEPT !.pc = "done", !.res = Thrown(err, "status")]
    /\ UNCHANGED <<server, call, scrape, v2>>

\* line 69: the timer fires and the loop reads the status again
Wake ==
    /\ poll.pc = "sleep"
    /\ poll' = [poll EXCEPT !.pc = "awaitGet"]
    /\ UNCHANGED <<server, call, scrape, v2>>

\* line 78 resolves; lines 80-90 return the mapped items
ItemsResolve(items) ==
    /\ poll.pc = "awaitItems"
    /\ poll' = [poll EXCEPT !.pc = "done",
                            !.res = Returned(MapItems(items, poll.maxPosts), "dataset")]
    /\ UNCHANGED <<server, call, scrape, v2>>

\* line 78 rejects
ItemsReject(err) ==
    /\ poll.pc = "awaitItems"
    /\ poll' = [poll EXCEPT !.pc = "done", !.res = Thrown(err, "dataset")]
    /\ UNCHANGED <<server, call, scrape, v2>>

-----------------------------------------------------------------------------
(* The server of src/unnamed/part_002.  Its POST / takes a token from a     *)
(* RateLimiter of the limiter package before anything else, then calls     *)
(* its own fetchInstagramPosts, which reads the cache under a key made of   *)
(* the username as it was sent.  The limiter is a bucket of                 *)
(* V2_RATE_LIMIT tokens that drips back V2_RATE_LIMIT tokens an hour, and   *)
(* that hands out at most V2_RATE_LIMIT tokens per interval; its content    *)
(* is counted in units of 1 / TOKEN_UNITS token, one unit dripping per ms.  *)

V2_RATE_LIMIT == 100

V2_REQUEST_TIMEOUT == 10000

V2_GUARD_EXTRA == 5000

V2_MAX_USERNAME == 30

V2_DEFAULT_LIMIT == 10

\* interval / tokensPerInterval: the ms one token takes to drip back
TOKEN_UNITS == REFILL_INTERVAL \div V2_RATE_LIMIT

MSG_V2_INVALID == <<"I", "n", "v", "a", "l", "i", "d", " ", "u", "s", "e", "r", "n", "a", "m", "e", " ", "f", "o", "r", "m", "a", "t">>

MSG_V2_GUARD == <<"R", "e", "q", "u", "e", "s", "t", " ", "t", "i", "m", "e", "o", "u", "t">>

MSG_V2_TIMEOUT_PREFIX == <<"S", "c", "r", "a", "p", "i", "n", "g", " ", "t", "i", "m", "e", "o", "u", "t", " ", "f", "o", "r", " ">>

MSG_V2_TIMEOUT_SUFFIX == <<".", " ", "P", "l", "e", "a", "s", "e", " ", "t", "r", "y", " ", "a", "g", "a", "i", "n", ".">>

MSG_V2_PROVIDER_429 == <<"R", "a", "t", "e", " ", "l", "i", "m", "i", "t", " ", "e", "x", "c", "e", "e", "d", "e", "d", ".", " ", "P", "l", "e", "a", "s", "e", " ", "t", "r", "y", " ", "a", "g", "a", "i", "n", " ", "l", "a", "t", "e", "r", ".">>

STR_RATE_LIMIT == <<"R", "a", "t", "e", " ", "l", "i", "m", "i", "t">>

\* TokenBucket.drip(): add what has dripped since the last drip, up to the
\* bucket's size
Drip(v, t) ==
    [v EXCEPT !.content = Min(V2_RATE_LIMIT * TOKEN_UNITS, @ + Max(t - v.lastDrip, 0)),
              !.lastDrip = t]

\* limiter.tryRemoveTokens(1) at time t: ok, and the limiter afterwards
V2TryRemoveTokens(v, t) ==
    LET w == IF t - v.intervalStart >= REFILL_INTERVAL
             THEN [v EXCEPT !.intervalStart = t, !.thisInterval = 0]
             ELSE v
        d == Drip(w, t)
    IN  IF 1 > V2_RATE_LIMIT - w.thisInterval THEN [ok |-> FALSE, v |-> w]
        ELSE IF d.content < TOKEN_UNITS THEN [ok |-> FALSE, v |-> d]
        ELSE [ok |-> TRUE,
              v  |-> [d EXCEPT !.content = @ - TOKEN_UNITS, !.thisInterval = @ + 1]]

\* limiter.getTokensRemaining() at time t, in whole tokens
V2TokensRemaining(v, t) == Drip(v, t).content \div TOKEN_UNITS

\* item.id || item.timestamp || title, line 69
V2DedupKey(item) ==
    IF item.id # <<>> THEN <<"string", item.id>>
    ELSE IF item.timestamp # 0 THEN <<"number", item.timestamp>>
    ELSE <<"string", DeriveTitle(item)>>

\* the post stored for an accepted item, lines 72-78
V2MakePost(item, t) ==
    [id        |-> item.id,
     title     |-> DeriveTitle(item),
     caption   |-> item.caption,
     hashtags  |-> IF item.hashtags.isArray THEN item.hashtags.v
                   ELSE extractHashtagsAscii(item.caption),
     timestamp |-> IF item.timestamp # 0 THEN item.timestamp ELSE t]

\* the loop of processPosts, lines 61-81, from item i on
RECURSIVE V2ProcessLoop(_, _, _, _, _, _)
V2ProcessLoop(items, maxPosts, t, i, keys, posts) ==
    IF i > Len(items) \/ Len(posts) >= maxPosts THEN posts
    ELSE IF items[i].type # "Post" \/ MapHas(keys, V2DedupKey(items[i]))
         THEN V2ProcessLoop(items, maxPosts, t, i + 1, keys, posts)
    ELSE V2ProcessLoop(items, maxPosts, t, i + 1,
                       Append(keys, V2DedupKey(items[i])),
                       Append(posts, V2MakePost(items[i], t)))

\* Math.min(Math.max(1, parseInt(maxPosts) || 10), CONFIG.MAX_POSTS), lines 230-233
V2HandlerLimit(maxPosts) ==
    Min(Max(1, IF maxPosts = 0 THEN V2_DEFAULT_LIMIT ELSE maxPosts), MAX_POSTS)

\* `instagram:${username}:${maxPosts}`, line 89: the username as sent
V2CacheKey(username, maxPosts) ==
    KEY_PREFIX \o username \o KEY_SEP \o NumToString(maxPosts)

\* the catch block of fetchInstagramPosts, lines 170-181, then the one of
\* the handler, lines 245-255: the response for a caught error
V2ErrorResponse(err, username) ==
    LET message == IF Includes(err.message, STR_TIMEOUT)
                   THEN MSG_V2_TIMEOUT_PREFIX \o username \o MSG_V2_TIMEOUT_SUFFIX
                   ELSE IF err.code = "429" THEN MSG_V2_PROVIDER_429
                   ELSE MSG_FETCH_PREFIX \o err.message
    IN  [code    |-> IF Includes(message, STR_TIMEOUT) THEN "408"
                     ELSE IF Includes(message, STR_RATE_LIMIT) THEN "429"
                     ELSE "500",
         message |-> message]

\* fetchInstagramPosts of part_002 up to its first await, lines 87-146,
\* with the limiter already as v says
V2FetchBegin(v, username, maxPosts) ==
    LET cacheKey == V2CacheKey(username, maxPosts)
        cached   == CacheGet(v.cache, cacheKey, now)
        clean    == ToLowerCase(Trim(username))
        w        == [v EXCEPT !.cache = cached.cache, !.username = username,
                              !.key = cacheKey, !.limit = Min(Max(1, maxPosts), MAX_POSTS),
                              !.deadline = 0, !.res = NoResult]
    IN  IF cached.hit
        THEN [w EXCEPT !.pc = "done", !.res = Returned(cached.v, "cache")]
        ELSE IF clean = <<>> \/ Len(clean) > V2_MAX_USERNAME
        THEN [w EXCEPT !.pc = "done",
                       !.res = Thrown([code |-> "500", message |-> MSG_V2_INVALID],
                                      "validation")]
        ELSE [w EXCEPT !.pc = "awaitActor",
                       !.deadline = now + V2_REQUEST_TIMEOUT + V2_GUARD_EXTRA]

\* POST / of part_002, lines 210-235, up to the first await that waits:
\* take a token or answer 429, answer 400 for a blank username, else call
\* fetchInstagramPosts(username, postsLimit)
V2PostBegin(username, maxPosts) ==
    LET taken == V2TryRemoveTokens(v2, now)
    IN  IF ~taken.ok
        THEN [taken.v EXCEPT !.pc = "done",
                 !.res = Thrown([code |-> "429", message |-> MSG_RATE_LIMIT], "limiter")]
        ELSE IF Trim(username) = <<>>
        THEN [taken.v EXCEPT !.pc = "done",
                 !.res = Thrown([code |-> "400", message |-> MSG_USERNAME_REQUIRED],
                                "handler")]
        ELSE V2FetchBegin(taken.v, username, V2HandlerLimit(maxPosts))

V2Post(username, maxPosts) ==
    /\ v2.pc \in {"idle", "done"}
    /\ v2.nreq < MaxRequests
    /\ v2' = [V2PostBegin(username, maxPosts) EXCEPT !.nreq = v2.nreq + 1]
    /\ UNCHANGED <<server, call, poll, scrape>>

\* line 146: the actor call resolves first; lines 149-156 start the
\* retrieval
V2ActorResolve ==
    /\ v2.pc = "awaitActor"
    /\ v2' = [v2 EXCEPT !.pc = "awaitDataset"]
    /\ UNCHANGED <<server, call, poll, scrape>>

\* line 146: the actor call rejects first
V2ActorReject(err) ==
    /\ v2.pc = "awaitActor"
    /\ v2' = [v2 EXCEPT !.pc = "done",
                        !.res = Thrown(V2ErrorResponse(err, v2.username), "actor")]
    /\ UNCHANGED <<server, call, poll, scrape>>

\* lines 142-146: the timer fires first
V2ActorTimeout ==
    /\ v2.pc = "awaitActor"
    /\ now >= v2.deadline
    /\ v2' = [v2 EXCEPT !.pc = "done",
                        !.res = Thrown(V2ErrorResponse([code |-> "undefined",
                                                        message |-> MSG_V2_GUARD],
                                                       v2.username), "timer")]
    /\ UNCHANGED <<server, call, poll, scrape>>

\* lines 149-168: listItems has resolved and the 100 ms have passed
V2DatasetResolve(dataset) ==
    /\ v2.pc = "awaitDataset"
    /\ LET posts == V2ProcessLoop(ListItems(dataset, v2.limit), v2.limit, now, 1, <<>>, <<>>)
       IN  v2' = [v2 EXCEPT !.pc = "done", !.res = Returned(posts, "dataset"),
                            !.cache = StoreResult(v2.cache, v2.key, posts, now)]
    /\ UNCHANGED <<server, call, poll, scrape>>

\* lines 149-156: listItems rejects
V2DatasetReject(err) ==
    /\ v2.pc = "awaitDataset"
    /\ v2' = [v2 EXCEPT !.pc = "done",
                        !.res = Thrown(V2ErrorResponse(err, v2.username), "dataset")]
    /\ UNCHANGED <<server, call, poll, scrape>>

\* new RegExp(pattern).test(key) for a pattern that is not anchored
RegExpSearch(pattern, key) ==
    \E o \in 1..(Len(key) + 1) : RegExpTest(pattern, SubSeq(key, o, Len(key)))

\* the keys DELETE /cache/:username of part_002 removes, lines 198-199
V2KeysOfUsername(c, username) ==
    {k \in CacheKeys(c) : RegExpSearch(KEY_PREFIX \o username, k)}

\* DELETE /cache/:username? of part_002, lines 194-207
V2DeleteCache(username) ==
    /\ LET keys == IF username # <<>> THEN V2KeysOfUsername(v2.cache, username)
                   ELSE CacheKeys(v2.cache)
       IN  v2' = [v2 EXCEPT !.cache = CacheDel(v2.cache, keys),
                            !.cleared = Cardinality(keys)]
    /\ v2' # v2
    /\ UNCHANGED <<server, call, poll, scrape>>

-----------------------------------------------------------------------------
(* The server: any interleaving of requests, provider answers, timers and   *)
(* clock advances, with at most MaxRequests invocations                      *)

EmptyCache == [k \in {} |-> [v |-> NoPosts, t |-> 0]]

\* part_002 after construction: a full bucket, an empty cache, no request
IdleV2 ==
    [content |-> V2_RATE_LIMIT * TOKEN_UNITS, lastDrip |-> 0, intervalStart |-> 0,
     thisInterval |-> 0, cache |-> EmptyCache, nreq |-> 0, cleared |-> 0,
     pc |-> "idle", username |-> <<>>, key |-> <<>>, limit |-> 0, deadline |-> 0,
     res |-> NoResult]

Init ==
    /\ now = 0
    /\ ticks = 0
    /\ tokens = RATE_LIMIT_PER_HOUR
    /\ lastRefill = 0
    /\ cache = EmptyCache
    /\ req = [r \in Slots |-> IdleReq]
    /\ windowCalls = 0
    /\ nreq = 0
    /\ ret = NoCall
    /\ call = NoApply
    /\ poll = IdlePoll
    /\ scrape = IdleScrape
    /\ v2 = IdleV2

\* Spec serves its requests one after the other, on the first slot
SeqSlots == {1}

DoFetch ==
    /\ nreq < MaxRequests
    /\ nreq' = nreq + 1
    /\ \E r \in SeqSlots, u \in Usernames, m \in Limits : Fetch(r, u, m)

DoActorResolve == \E r \in Slots : ActorResolve(r)

DoActorReject == \E r \in Slots, e \in ProviderErrors : ActorReject(r, e)

DoActorTimeout == \E r \in Slots : ActorTimeout(r)

DoActorSettleLate == \E r \in Slots : ActorSettleLate(r)

DoDatasetResolve == \E r \in Slots, d \in Datasets : DatasetResolve(r, d)

DoDatasetReject == \E r \in Slots, e \in ProviderErrors : DatasetReject(r, e)

DoDeleteCache == \E u \in DeleteArgs : DeleteCache(u)

DoTick == \E d \in TickSteps : Tick(d)

Next ==
    \/ DoFetch
    \/ DoActorResolve
    \/ DoActorReject
    \/ DoActorTimeout
    \/ DoActorSettleLate
    \/ DoDatasetResolve
    \/ DoDatasetReject
    \/ Health
    \/ DoDeleteCache
    \/ CheckData
    \/ DoTick

Spec == Init /\ [][Next]_vars

-----------------------------------------------------------------------------
(* RateSpec: the server under load.  Any number of requests for one handle, *)
(* on every slot, answered by a provider whose datasets hold no post, so    *)
(* that nothing is cached and every request asks the limiter.               *)

RateTickSteps == {CACHE_TTL * 1000, REFILL_INTERVAL}

RateFetch ==
    /\ \E r \in Slots : Fetch(r, U_NASA, 5)
    /\ UNCHANGED nreq

RateActorReject == \E r \in Slots : ActorReject(r, E_FAILED)

RateDatasetResolve == \E r \in Slots : DatasetResolve(r, D_NOPOST)

RateTick == \E d \in RateTickSteps : Tick(d)

RateNext ==
    \/ RateFetch
    \/ DoActorResolve
    \/ RateActorReject
    \/ RateDatasetResolve
    \/ Health
    \/ RateTick

RateSpec == Init /\ [][RateNext]_vars

-----------------------------------------------------------------------------
(* LimSpec: the limiter's two methods called directly, for 1..MaxRemove     *)
(* tokens at a time, as the clock advances.  ret records each call: its     *)
(* argument, the limiter before it, the time, and what it returned.         *)

LimTryRemoveTokens(n) ==
    LET taken == tryRemoveTokens(Limiter, now, n)
    IN  /\ tokens' = taken.lim.tokens
        /\ lastRefill' = taken.lim.lastRefill
        /\ ret' = [NoCall EXCEPT !.op = "tryRemoveTokens", !.n = n, !.ok = taken.ok,
                                 !.before = Limiter, !.at = now]
        /\ UNCHANGED <<now, ticks, cache, req, windowCalls, nreq, others>>

LimGetTokensLeft ==
    LET left == getTokensLeft(Limiter, now)
    IN  /\ tokens' = left.lim.tokens
        /\ lastRefill' = left.lim.lastRefill
        /\ ret' = [NoCall EXCEPT !.op = "getTokensLeft", !.value = left.value,
                                 !.before = Limiter, !.at = now]
        /\ UNCHANGED <<now, ticks, cache, req, windowCalls, nreq, others>>

LimRemove == \E n \in 1..MaxRemove : LimTryRemoveTokens(n)

LimNext ==
    \/ LimRemove
    \/ LimGetTokensLeft
    \/ DoTick

LimSpec == Init /\ [][LimNext]_vars

-----------------------------------------------------------------------------
(* LiveSpec: the provider never answers.  The actor call of every request   *)
(* stays pending, so only the guard's timer can end it.  Node's event loop  *)
(* runs every timer that is due: weak fairness of ActorTimeout.             *)

LiveFetch ==
    /\ nreq < MaxRequests
    /\ nreq' = nreq + 1
    /\ \E r \in Slots, u \in {U_NASA, U_LONG}, m \in Limits : Fetch(r, u, m)

\* the clock moves by the guard's delay
LiveTick == Tick(ACTOR_TIMEOUT)

LiveNext ==
    \/ LiveFetch
    \/ DoActorTimeout
    \/ LiveTick

LiveSpec ==
    /\ Init
    /\ [][LiveNext]_vars
    /\ \A r \in Slots : WF_vars(ActorTimeout(r))

-----------------------------------------------------------------------------
(* FuncSpec: processPosts and extractHashtags called directly, on every     *)
(* list of at most MaxItems raw items with every limit 1..MaxItems, and on  *)
(* every caption of at most MaxPieces pieces, once the clock has advanced   *)
(* any number of times.  call records the arguments, the time and what      *)
(* came back.                                                               *)

ApplyProcessPosts ==
    /\ call.fn = "none"
    /\ \E items \in SeqsUpTo(RawItems, MaxItems), n \in 1..MaxItems :
          LET R == ProcessLoop(items, n, now, 1, <<>>, <<>>)
          IN  call' = [NoApply EXCEPT !.fn = "processPosts", !.at = now,
                                      !.items = items, !.n = n,
                                      !.posts = processPosts(items, n, now),
                                      !.keys = R.keys, !.examined = R.examined]
    /\ UNCHANGED <<now, ticks, tokens, lastRefill, cache, req, windowCalls, nreq, ret,
                   poll, scrape, v2>>

ApplyExtractHashtags ==
    /\ call.fn = "none"
    /\ \E ps \in SeqsUpTo(Pieces, MaxPieces) :
          call' = [NoApply EXCEPT !.fn = "extractHashtags", !.at = now, !.text = Join(ps),
                                  !.tags = extractHashtags(Join(ps))]
    /\ UNCHANGED <<now, ticks, tokens, lastRefill, cache, req, windowCalls, nreq, ret,
                   poll, scrape, v2>>

FuncNext ==
    \/ ApplyProcessPosts
    \/ ApplyExtractHashtags
    \/ LiveTick

FuncSpec == Init /\ [][FuncNext]_vars

-----------------------------------------------------------------------------
(* ScrapeSpec: one invocation of scrapeInstagramPosts of either file, with  *)
(* every answer of the extraction provider: a rejection, a response         *)
(* without body, or a document out of Documents.                            *)

U_AT_NASA == <<"@", "n", "a", "s", "a">>

U_AT == <<" ", "@">>

ScrapeUsernames == {U_NASA, U_AT_NASA, U_AT}

E_NULL == [isNull |-> TRUE, captionIsString |-> TRUE, caption |-> <<>>, shortcode |-> <<>>]

E_NONODE == [isNull |-> FALSE, captionIsString |-> TRUE, caption |-> <<>>, shortcode |-> <<>>]

E_POST ==
    [isNull |-> FALSE, captionIsString |-> TRUE,
     caption |-> <<"U", "p", "\n", "#", "M", " ", "#", "M">>, shortcode |-> <<"c">>]

E_NUMBER == [isNull |-> FALSE, captionIsString |-> FALSE, caption |-> <<"5">>, shortcode |-> <<>>]

Edges == {E_NULL, E_NONODE, E_POST, E_NUMBER}

Jsons ==
    {NoJson,
     [ok |-> TRUE, edges |-> [kind |-> "absent", v |-> <<>>]],
     [ok |-> TRUE, edges |-> [kind |-> "object", v |-> <<>>]]}
    \cup {[ok |-> TRUE, edges |-> [kind |-> "array", v |-> es]] :
             es \in SeqsUpTo(Edges, MaxEdges)}

Documents ==
    {EmptyHtml} \cup {[marker |-> m, json |-> j] : m \in {"sharedData", "additionalData"},
                                                    j \in Jsons}

DoScrapeStart ==
    \E variant \in Variants, keySet \in BOOLEAN, u \in ScrapeUsernames :
        ScrapeStart(variant, keySet, u)

DoExtractResolve == \E hasBody \in BOOLEAN, html \in Documents : ExtractResolve(hasBody, html)

DoExtractReject == \E kind \in {"response", "request", "setup"} : ExtractReject(kind)

ScrapeNext ==
    \/ DoScrapeStart
    \/ DoExtractResolve
    \/ DoExtractReject
    \/ LiveTick

ScrapeSpec == Init /\ [][ScrapeNext]_vars

-----------------------------------------------------------------------------
(* PollSpec: one invocation of part_000's fetchInstagramPosts against a     *)
(* platform that answers or rejects every call and moves the run through    *)
(* its statuses at any time.                                                *)

PollItem(title, caption, isArray) ==
    [isNull |-> FALSE, title |-> title, caption |-> caption, url |-> <<"u">>,
     hashtags |-> [isArray |-> isArray, v |-> <<>>]]

NullPollItem ==
    [isNull |-> TRUE, title |-> <<>>, caption |-> <<>>, url |-> <<>>,
     hashtags |-> [isArray |-> FALSE, v |-> <<>>]]

PollDatasets ==
    {<<>>,
     <<PollItem(<<"t">>, <<"#", "A", " ", "#", "a">>, FALSE), NullPollItem,
       PollItem(<<>>, <<>>, TRUE)>>}

DoPollStart == \E u \in {U_NASA, U_AT_NASA}, m \in Limits : PollStart(u, m)

DoCallResolve == \E st \in RunningStatuses \cup TerminalStatuses : CallResolve(st)

DoCallReject == \E err \in ProviderErrors : CallReject(err)

DoJobAdvance == \E st \in RunningStatuses \cup TerminalStatuses : JobAdvance(st)

DoGetReject == \E err \in ProviderErrors : GetReject(err)

DoItemsResolve == \E items \in PollDatasets : ItemsResolve(items)

DoItemsReject == \E err \in ProviderErrors : ItemsReject(err)

PollNext ==
    \/ DoPollStart
    \/ DoCallResolve
    \/ DoCallReject
    \/ DoJobAdvance
    \/ GetResolve
    \/ DoGetReject
    \/ Wake
    \/ DoItemsResolve
    \/ DoItemsReject

PollSpec == Init /\ [][PollNext]_vars

-----------------------------------------------------------------------------
(* PollLiveSpec: the run never reaches a terminal status.  The platform     *)
(* answers every call and every read, and Node fires the 5 s timer: weak    *)
(* fairness of the three steps.                                             *)

LiveCallResolve == \E st \in RunningStatuses : CallResolve(st)

LiveJobAdvance == \E st \in RunningStatuses : JobAdvance(st)

PollLiveNext ==
    \/ DoPollStart
    \/ LiveCallResolve
    \/ LiveJobAdvance
    \/ GetResolve
    \/ Wake
    \/ LiveTick

PollLiveSpec ==
    /\ Init
    /\ [][PollLiveNext]_vars
    /\ WF_vars(LiveCallResolve)
    /\ WF_vars(GetResolve)
    /\ WF_vars(Wake)

-----------------------------------------------------------------------------
(* KeySpec: requests, one after the other, for one account written in       *)
(* three ways and with three limits, made by calling fetchInstagramPosts    *)
(* or through POST /, each answered by the provider with the same five      *)
(* posts.                                                                   *)

KeyUsernames == {U_NASA, U_NASA_MIXED, U_AT_NASA}

\* a limit that is not positive, the limit left out (0), and a proper one
KeyLimits == {-1, 0, 5}

KeyFetch ==
    /\ nreq < MaxRequests
    /\ nreq' = nreq + 1
    /\ \E r \in SeqSlots, u \in KeyUsernames, m \in KeyLimits : Fetch(r, u, m)

KeyPost ==
    /\ nreq < MaxRequests
    /\ nreq' = nreq + 1
    /\ \E r \in SeqSlots, u \in KeyUsernames \cup {U_BLANK}, m \in KeyLimits :
          PostRoot(r, u, m)

KeyDatasetResolve == \E r \in Slots : DatasetResolve(r, D_FIVE)

KeyNext ==
    \/ KeyFetch
    \/ KeyPost
    \/ DoActorResolve
    \/ KeyDatasetResolve
    \/ LiveTick

KeySpec == Init /\ [][KeyNext]_vars

-----------------------------------------------------------------------------
(* V2Spec: requests to part_002's POST /, one after the other, its          *)
(* DELETE /cache, and the provider's answers.                               *)

U_NASA1 == <<"n", "a", "s", "a", "1">>

U_N_SA == <<"n", ".", "s", "a">>

V2Usernames == {U_NASA, U_NASA1, U_BLANK}

V2Datasets == {D_FIVE, D_NOPOST}

V2DeleteArgs == {<<>>, U_NASA, U_N_SA}

DoV2Post == \E u \in V2Usernames, m \in {0, 5} : V2Post(u, m)

DoV2ActorReject == \E err \in ProviderErrors : V2ActorReject(err)

DoV2DatasetResolve == \E d \in V2Datasets : V2DatasetResolve(d)

DoV2DatasetReject == \E err \in ProviderErrors : V2DatasetReject(err)

DoV2DeleteCache == \E u \in V2DeleteArgs : V2DeleteCache(u)

V2Next ==
    \/ DoV2Post
    \/ V2ActorResolve
    \/ DoV2ActorReject
    \/ V2ActorTimeout
    \/ DoV2DatasetResolve
    \/ DoV2DatasetReject
    \/ DoV2DeleteCache
    \/ LiveTick

V2Spec == Init /\ [][V2Next]_vars

-----------------------------------------------------------------------------
(* DelSpec: requests for two handles of which one begins with the other,    *)
(* to both servers, and invalidations for one of them and for a handle      *)
(* with a "." in it.                                                        *)

DelUsernames == {U_NASA, U_NASA1}

DelHandles == {U_NASA, U_N_SA}

DelFetch ==
    /\ nreq < MaxRequests
    /\ nreq' = nreq + 1
    /\ \E r \in SeqSlots, u \in DelUsernames : Fetch(r, u, 1)

DelDeleteCache == \E h \in DelHandles : DeleteCache(h)

DelV2Post == \E u \in DelUsernames : V2Post(u, 1)

DelV2DatasetResolve == V2DatasetResolve(D_FIVE)

DelV2DeleteCache == \E h \in DelHandles : V2DeleteCache(h)

DelNext ==
    \/ DelFetch
    \/ DoActorResolve
    \/ KeyDatasetResolve
    \/ DelDeleteCache
    \/ DelV2Post
    \/ V2ActorResolve
    \/ DelV2DatasetResolve
    \/ DelV2DeleteCache

DelSpec == Init /\ [][DelNext]_vars

-----------------------------------------------------------------------------
(* CoSpec: requests for one key that are in flight together, with answers   *)
(* of the provider that differ from one request to the other.               *)

CoDatasets == {D_FIVE, D_MIXED, D_NOPOST}

CoFetch ==
    /\ nreq < MaxRequests
    /\ nreq' = nreq + 1
    /\ \E r \in Slots : Fetch(r, U_NASA, 5)

CoDatasetResolve == \E r \in Slots, d \in CoDatasets : DatasetResolve(r, d)

CoNext ==
    \/ CoFetch
    \/ DoActorResolve
    \/ DoActorReject
    \/ CoDatasetResolve
    \/ DoDatasetReject

CoSpec == Init /\ [][CoNext]_vars

-----------------------------------------------------------------------------
(* The claims *)

\* a step in which slot r runs fetchInstagramPosts up to its first await
FetchStep(r) == \E u \in Usernames, m \in Limits : Fetch(r, u, m)

\* what every step of Spec that starts a request in slot r shows: one more
\* request is counted and no other slot has moved
StartsRequest(r) ==
    /\ nreq' # nreq
    /\ \A s \in Slots \ {r} : req'[s] = req[s]

\* C1: under any interleaving of requests, health queries and refills, the
\* limiter's token count stays within 0..RATE_LIMIT_PER_HOUR.
C1_TokensInRange == tokens \in 0..RATE_LIMIT_PER_HOUR

\* the bucket is empty again after a refill, while a request is in flight
C1_Witness ==
    /\ tokens = 0
    /\ lastRefill # 0
    /\ \E r \in Slots : req[r].pc = "awaitActor"

\* the tokens a call of tryRemoveTokens finds once refill() has run
AvailableAtCall ==
    IF ret.at - ret.before.lastRefill >= REFILL_INTERVAL
    THEN RATE_LIMIT_PER_HOUR
    ELSE ret.before.tokens

C3_ExhaustedUntilRefill ==
    (ret.op = "tryRemoveTokens" /\ ret.n = 1 /\ ret.before.tokens = 0) =>
        IF ret.at - ret.before.lastRefill < REFILL_INTERVAL
        THEN /\ ~ret.ok
             /\ tokens = 0
             /\ lastRefill = ret.before.lastRefill
        ELSE /\ ret.ok
             /\ tokens = RATE_LIMIT_PER_HOUR - 1
             /\ lastRefill = ret.at

\* a call on the empty bucket exactly one hour after the window began
C3_Witness ==
    /\ ret.op = "tryRemoveTokens"
    /\ ret.n = 1
    /\ ret.before.tokens = 0
    /\ ret.at - ret.before.lastRefill = REFILL_INTERVAL
    /\ ret.ok
    /\ tokens = RATE_LIMIT_PER_HOUR - 1

\* C4: when RATE_LIMIT_PER_HOUR requests have been granted in the current
\* window and the window has not yet elapsed, the next request that passes
\* validation and misses the cache fails with RATE_LIMIT and starts no
\* actor call.
C4_RequestBeyondCapacity ==
    [][\A r \in Slots :
          ( /\ windowCalls = RATE_LIMIT_PER_HOUR
            /\ now - lastRefill < REFILL_INTERVAL
            /\ FetchStep(r)
            /\ req'[r].key # <<>>
            /\ req'[r].key \notin DOMAIN LiveCache(cache, now) )
          => /\ req'[r].pc = "done"
             /\ req'[r].res.kind = "error"
             /\ req'[r].res.error.code = "RATE_LIMIT"
             /\ ~req'[r].called
             /\ windowCalls' = windowCalls
             /\ tokens' = tokens]_vars

\* the 101st request of a window, made a quarter of an hour into it, was
\* refused
C4_Witness ==
    \E r \in Slots :
        /\ req[r].pc = "done"
        /\ req[r].res.error.code = "RATE_LIMIT"
        /\ ~req[r].called
        /\ windowCalls = RATE_LIMIT_PER_HOUR
        /\ now - lastRefill = CACHE_TTL * 1000

\* c2 holds no entry that c does not hold, and reads see the same in both
NoCacheWrite(c, c2, t) ==
    /\ \A k \in DOMAIN c2 : k \in DOMAIN c /\ c2[k] = c[k]
    /\ LiveCache(c2, t) = LiveCache(c, t)

\* C5: a request whose key has an unexpired entry returns that entry's posts
\* at once; it takes no token, starts no actor call and leaves the cache as
\* it is.
C5_CacheHit ==
    [][\A r \in Slots :
          ( /\ StartsRequest(r)
            /\ req'[r].key \in DOMAIN LiveCache(cache, now)
            /\ FetchStep(r) )
          => /\ req'[r].pc = "done"
             /\ req'[r].res.kind = "posts"
             /\ req'[r].res.posts = cache[req'[r].key].v
             /\ ~req'[r].called
             /\ tokens' = tokens
             /\ lastRefill' = lastRefill
             /\ windowCalls' = windowCalls
             /\ cache' = cache]_vars

\* a request was served from the cache after an earlier one had taken the
\* only token spent so far
C5_Witness ==
    \E r \in Slots :
        /\ req[r].pc = "done"
        /\ req[r].res.via = "cache"
        /\ req[r].res.posts # <<>>
        /\ tokens = RATE_LIMIT_PER_HOUR - 1
        /\ nreq = 2

C7_ErrorNoCacheWrite ==
    [][\A r \in Slots :
          (req'[r] # req[r] /\ req'[r].res.kind # "posts")
          => NoCacheWrite(cache, cache', now)]_vars

\* a request failed in the retrieval while the cache held another key
C7_Witness ==
    \E r \in Slots :
        /\ req[r].pc = "done"
        /\ req[r].res.kind = "error"
        /\ req[r].res.via = "dataset"
        /\ cache # EmptyCache
        /\ req[r].key \notin DOMAIN cache

KEY_NASA_5 == <<"i", "n", "s", "t", "a", "g", "r", "a", "m", ":", "n", "a", "s", "a", ":", "5">>

\* every record of d is typed as a post, and no two have the same id
DistinctPosts(d) ==
    /\ \A i \in 1..Len(d) : d[i].type = "Post" /\ d[i].id # <<>>
    /\ \A i, j \in 1..Len(d) : i # j => d[i].id # d[j].id

\* C10: a granted request for "nasa" (in any letter case, with or without
\* surrounding blanks) and limit 5 uses the key instagram:nasa:5; and when
\* the provider returns k records, 1 <= k <= limit, all posts with distinct
\* ids, the request returns exactly those k posts in the provider's order
\* and the cache then holds that sequence under the request's key.
C10_ProviderOrder ==
    [][\A r \in Slots :
          /\ \A u \in {U_NASA, U_NASA_MIXED} :
                (StartsRequest(r) /\ req'[r].pc = "awaitActor" /\ Fetch(r, u, 5))
                => req'[r].key = KEY_NASA_5
          /\ \A d \in Datasets :
                ( /\ req[r].pc = "awaitDataset"
                  /\ req'[r] # req[r]
                  /\ DistinctPosts(d)
                  /\ Len(d) >= 1
                  /\ Len(d) <= req[r].limit
                  /\ DatasetResolve(r, d) )
                => LET posts == req'[r].res.posts
                   IN  /\ req'[r].res.kind = "posts"
                       /\ Len(posts) = Len(d)
                       /\ \A i \in 1..Len(d) :
                             /\ posts[i].id = d[i].id
                             /\ posts[i].caption = d[i].caption
                             /\ posts[i].timestamp = d[i].timestamp
                       /\ req[r].key \in DOMAIN cache'
                       /\ cache'[req[r].key].v = posts]_vars

\* five posts were returned and are cached under instagram:nasa:5
C10_Witness ==
    \E r \in Slots :
        /\ req[r].pc = "done"
        /\ req[r].res.via = "dataset"
        /\ Len(req[r].res.posts) = 5
        /\ req[r].key = KEY_NASA_5
        /\ KEY_NASA_5 \in DOMAIN cache
        /\ cache[KEY_NASA_5].v = req[r].res.posts

\* C9: when the actor call never settles, a request that is waiting for it
\* fails with TIMEOUT once its guard's 30 seconds have elapsed, and the
\* cache is never written.
C9_TimeoutWhenProviderHangs ==
    /\ \A r \in Slots :
          (req[r].pc = "awaitActor" /\ now >= req[r].deadline)
          ~> (req[r].pc = "done" /\ req[r].res.error.code = "TIMEOUT")
    /\ [](cache = EmptyCache)
    /\ [](\A r \in Slots :
             (req[r].pc = "done" /\ req[r].called) => req[r].res.error.code = "TIMEOUT")

\* a request has timed out on the guard while its actor call is still pending
C9_Witness ==
    \E r \in Slots :
        /\ req[r].pc = "done"
        /\ req[r].res.via = "timer"
        /\ req[r].res.error.code = "TIMEOUT"
        /\ req[r].actor = "pending"
        /\ now >= req[r].deadline
        /\ cache = EmptyCache

\* the positions of the post-typed records of items whose key no earlier
\* post-typed record has, in ascending order
FirstOccurrences(items) ==
    LET S == {i \in 1..Len(items) :
                 /\ items[i].type = "Post"
                 /\ \A j \in 1..(i - 1) :
                       items[j].type = "Post" => DedupKey(items[j]) # DedupKey(items[i])}
    IN  [k \in 1..Cardinality(S) |->
            CHOOSE i \in S : Cardinality({j \in S : j < i}) = k - 1]

\* C11: processPosts(items, N) returns at most N posts; each comes from a
\* post-typed record of its own, and no two of these records have the same
\* DedupKey; returned posts that carry an id have different ids.
C11_AtMostNDistinctKeys ==
    call.fn = "processPosts" =>
        /\ Len(call.posts) <= call.n
        /\ Len(call.keys) = Len(call.posts)
        /\ \A k \in 1..Len(call.posts) :
              \E i \in 1..Len(call.items) :
                  /\ call.items[i].type = "Post"
                  /\ DedupKey(call.items[i]) = call.keys[k]
                  /\ MakePost(call.items[i], call.at) = call.posts[k]
        /\ \A k, l \in 1..Len(call.keys) : k # l => call.keys[k] # call.keys[l]
        /\ \A k, l \in 1..Len(call.posts) :
              (k # l /\ call.posts[k].id # <<>>) => call.posts[k].id # call.posts[l].id

\* three posts went in, two of them with the same key, and two came back
C11_Witness ==
    /\ call.fn = "processPosts"
    /\ Len(call.items) = 3
    /\ \A i \in 1..3 : call.items[i].type = "Post"
    /\ DedupKey(call.items[1]) = DedupKey(call.items[3])
    /\ call.n = 3
    /\ Len(call.posts) = 2


\* the kinds of error the contract of fetchPosts names
ErrorKinds == {"VALIDATION", "RATE_LIMIT", "TIMEOUT", "PROVIDER_ERROR"}

\* C12: every request that ended in an error carries a kind out of
\* VALIDATION, RATE_LIMIT, TIMEOUT, PROVIDER_ERROR and a message that is
\* not empty.
C12_ErrorKinds ==
    \A r \in Slots :
        (req[r].pc = "done" /\ req[r].res.kind = "error")
        => /\ req[r].res.error.code \in ErrorKinds
           /\ req[r].res.error.message # <<>>


\* C13: after DELETE /cache/h no entry whose key fetchInstagramPosts builds
\* from h, for any limit, is left, and the reported count is the number of
\* entries removed; after DELETE /cache the cache is empty and the reported
\* count is the number of entries it held.
C13_Invalidate ==
    [][\A u \in DeleteArgs :
          DeleteCache(u)
          => /\ ret'.value = Cardinality(DOMAIN cache \ DOMAIN cache')
             /\ IF u = <<>>
                THEN cache' = EmptyCache
                ELSE \A l \in 1..MAX_POSTS :
                        CacheKey(Normalize(u), l) \notin DOMAIN cache']_vars


\* the document has no structure that the variant recognises, or the text
\* it captures is not JSON
NothingToParse(variant, html) == html.marker # Marker(variant) \/ ~html.json.ok

\* C14: once the provider call has succeeded, scrapeInstagramPosts returns
\* a sequence of posts whatever the document holds, never an error; for a
\* document without a recognisable structure or with malformed JSON the
\* sequence is empty.
C14_ParseNeverRaises ==
    (scrape.pc = "done" /\ scrape.resolved)
    => /\ scrape.res.kind = "posts"
       /\ NothingToParse(scrape.variant, scrape.html) => scrape.res.posts = <<>>

\* the provider answered with a document whose assignment is there but
\* whose JSON is malformed, and the caller got the empty sequence
C14_Witness ==
    /\ scrape.pc = "done" /\ scrape.resolved
    /\ scrape.html.marker = Marker(scrape.variant)
    /\ ~scrape.html.json.ok
    /\ scrape.res.kind = "posts" /\ scrape.res.posts = <<>>


\* a hashtag equal to tag but for the case of its letters starts at
\* position p of text and ends where the run of tag characters ends
OccursAt(text, tag, p) ==
    /\ p + Len(tag) <= Len(text)
    /\ text[p] = "#"
    /\ \A i \in 1..Len(tag) : LowerChar(text[p + i]) = LowerChar(tag[i])
    /\ (p + Len(tag) + 1 <= Len(text)) => ~IsTagChar(text[p + Len(tag) + 1])

\* the position of the first hashtag in text that is tag up to case
FirstOccurrence(text, tag) ==
    CHOOSE p \in 1..Len(text) :
        OccursAt(text, tag, p) /\ \A q \in 1..(p - 1) : ~OccursAt(text, tag, q)

\* C15: the tags extractHashtags returns for a caption are pairwise
\* different even when case is ignored, have no upper-case letter, each
\* occur in the caption as a hashtag, and stand in the order of their
\* first occurrences; the empty (or absent) caption gives no tag.
C15_UniqueLowerOrdered ==
    call.fn = "extractHashtags" =>
        /\ call.text = <<>> => call.tags = <<>>
        /\ \A i \in 1..Len(call.tags) :
              /\ call.tags[i] # <<>>
              /\ \A k \in 1..Len(call.tags[i]) :
                    \A u \in 1..26 : call.tags[i][k] # UpperAlpha[u]
              /\ \E p \in 1..Len(call.text) : OccursAt(call.text, call.tags[i], p)
        /\ \A i, j \in 1..Len(call.tags) :
              i < j => /\ ToLowerCase(call.tags[i]) # ToLowerCase(call.tags[j])
                       /\ FirstOccurrence(call.text, call.tags[i])
                            < FirstOccurrence(call.text, call.tags[j])

\* "#A#b_#a" gave the tags a and b_
C15_Witness ==
    /\ call.fn = "extractHashtags"
    /\ call.text = <<"#", "A", "#", "b", "_", "#", "a">>
    /\ call.tags = <<<<"a">>, <<"b", "_">>>>


\* C16: listItems has been called only if the last read of the status
\* returned SUCCEEDED, and once a read has returned FAILED, ABORTED or
\* TIMED-OUT the request has ended with an error and listItems was not
\* called.
C16_RetrieveOnlyAfterSucceeded ==
    /\ poll.retrieved => poll.last = "SUCCEEDED"
    /\ poll.pc = "awaitItems" => poll.retrieved
    /\ poll.res.kind = "posts" => poll.retrieved
    /\ poll.last \in TerminalStatuses \ {"SUCCEEDED"}
       => /\ poll.pc = "done"
          /\ poll.res.kind = "error"
          /\ ~poll.retrieved

\* the run was seen running, then FAILED, and the request ended with the
\* error without a retrieval
C16_Witness ==
    /\ poll.pc = "done"
    /\ poll.polls >= 2
    /\ poll.last = "FAILED"
    /\ poll.res.kind = "error"
    /\ poll.res.error.message = RunFailedMessage("FAILED")
    /\ ~poll.retrieved

\* C17: a request that has started polling ends, even when the run's
\* status never becomes terminal.
C17_PollingEnds == (poll.pc = "awaitGet") ~> (poll.pc = "done")


\* a timer of request r fires and the request ends with the TIMEOUT error
GuardAborts(r) ==
    /\ ActorTimeout(r) \/ ActorSettleLate(r)
    /\ req'[r].pc = "done"
    /\ req'[r].res.kind = "error"
    /\ req'[r].res.error.code = "TIMEOUT"

\* C18: a request that is still waiting for listItems when the guard's
\* delay has passed can be ended by the guard, with the TIMEOUT error,
\* without any answer from the provider.
C18_RetrievalGuarded ==
    \A r \in Slots :
        (req[r].pc = "awaitDataset" /\ now >= req[r].deadline) => ENABLED GuardAborts(r)


\* C19: with requests suspended at their awaits while others start, every
\* actor call started in the current window has taken a token of its own:
\* the calls started and the tokens left add up to the capacity, so the
\* calls of one window never exceed it; and every request suspended at an
\* await is one whose actor call was started and counted.
C19_OneTokenPerCall ==
    /\ windowCalls + tokens = RATE_LIMIT_PER_HOUR
    /\ windowCalls <= RATE_LIMIT_PER_HOUR
    /\ \A r \in Slots :
          req[r].pc \in {"awaitActor", "awaitDataset"} => req[r].called

\* the last token of a window was taken while another request was still
\* suspended at an await
C19_Witness ==
    /\ windowCalls = RATE_LIMIT_PER_HOUR
    /\ tokens = 0
    /\ req[1].pc = "awaitDataset"
    /\ req[2].pc = "awaitActor"


\* C20: processPosts(items, N) is the first N of the posts made from the
\* first occurrences of each DedupKey among the items of type Post, in
\* input order; and the loop stops at the item that was accepted as the
\* N-th: no item after it is looked at.
C20_FirstNOfFirstOccurrences ==
    call.fn = "processPosts" =>
        LET kept == FirstOccurrences(call.items)
            n    == Min(call.n, Len(kept))
        IN  /\ call.posts = [k \in 1..n |-> MakePost(call.items[kept[k]], call.at)]
            /\ call.examined = IF Len(kept) >= call.n THEN kept[call.n]
                               ELSE Len(call.items)

\* of three items with two keys and limit 1, only the first was
\* looked at and it alone was returned
C20_Witness ==
    /\ call.fn = "processPosts"
    /\ Len(call.items) = 3
    /\ call.items[1].type = "Post"
    /\ call.items[2].type = "Post"
    /\ DedupKey(call.items[1]) # DedupKey(call.items[2])
    /\ call.n = 1
    /\ Len(call.posts) = 1
    /\ call.examined = 1


\* no two of the tags are equal when the case of letters is ignored
NoRepeatedTag(tags) ==
    \A i, j \in 1..Len(tags) : i # j => ToLowerCase(tags[i]) # ToLowerCase(tags[j])

\* C21: every post a request has returned and every post held in the cache
\* has a hashtags list without two values equal up to case.
C21_HashtagsUnique ==
    /\ \A r \in Slots :
          \A i \in 1..Len(req[r].res.posts) : NoRepeatedTag(req[r].res.posts[i].hashtags)
    /\ \A k \in DOMAIN cache :
          \A i \in 1..Len(cache[k].v) : NoRepeatedTag(cache[k].v[i].hashtags)


\* the handle a username stands for: trimmed, without a leading "@",
\* lower-case
HandleOf(username) == ToLowerCase(StripAt(username))

\* C22: a request for a username whose handle and limit have an unexpired
\* cache entry, whatever the case of its letters, the white space around it
\* or a leading "@", uses that entry's key and is served from the cache.
C22_SameKeyForSameHandle ==
    [][\A r \in SeqSlots, u \in KeyUsernames, m \in KeyLimits :
          ( /\ StartsRequest(r)
            /\ CacheKey(HandleOf(u), PostsLimit(m)) \in DOMAIN LiveCache(cache, now)
            /\ Fetch(r, u, m) )
          => /\ req'[r].key = CacheKey(HandleOf(u), PostsLimit(m))
             /\ req'[r].res.via = "cache"]_vars


\* C23: a request with a limit of 0 or less, made by calling
\* fetchInstagramPosts or through POST /, ends at once with an error of
\* kind VALIDATION; it starts no actor call, takes no token and leaves the
\* cache as it is.
C23_NonPositiveLimit ==
    [][\A r \in SeqSlots, u \in KeyUsernames, m \in KeyLimits :
          ( /\ m <= 0
            /\ StartsRequest(r)
            /\ Fetch(r, u, m) \/ PostRoot(r, u, m) )
          => /\ req'[r].pc = "done"
             /\ req'[r].res.kind = "error"
             /\ req'[r].res.error.code = "VALIDATION"
             /\ ~req'[r].called
             /\ tokens' = tokens
             /\ cache' = cache]_vars


\* C24: in part_002, a request to POST / that is served from the cache
\* leaves the limiter's tokens as they were.
C24_CacheHitTakesNoToken ==
    [][(v2'.nreq # v2.nreq /\ v2'.res.via = "cache")
       => V2TokensRemaining(v2', now) = V2TokensRemaining(v2, now)]_vars


\* C25: the token count grows only in a step that refills the bucket; the
\* step that grants a request and starts its actor call takes exactly one
\* token from what the refill left; the step in which a granted request
\* ends, with posts, with none, with TIMEOUT or with a provider error,
\* leaves the tokens and the count of calls as they were; and after every
\* step the calls started in the window are the capacity less the tokens.
C25_NeverRefunded ==
    [][ /\ (tokens' > tokens => lastRefill' # lastRefill)
        /\ \A r \in Slots :
              /\ (req[r].pc \in {"awaitActor", "awaitDataset"} /\ req'[r].pc = "done")
                    => (tokens' = tokens /\ windowCalls' = windowCalls)
              /\ (StartsRequest(r) /\ req'[r].pc = "awaitActor")
                    => /\ req'[r].called
                       /\ tokens' = (IF lastRefill' # lastRefill
                                     THEN RATE_LIMIT_PER_HOUR ELSE tokens) - 1
        /\ RATE_LIMIT_PER_HOUR - tokens' = windowCalls'
      ]_vars

\* a granted request has ended with TIMEOUT and its token is still gone
C25_Witness ==
    /\ req[1].pc = "done"
    /\ req[1].called
    /\ req[1].res.kind = "error"
    /\ req[1].res.error.code = "TIMEOUT"
    /\ lastRefill = 0
    /\ tokens = RATE_LIMIT_PER_HOUR - 1
    /\ windowCalls = 1


\* the entries of c that a step to d has removed or changed
Touched(c, d) == {k \in DOMAIN c : k \notin DOMAIN d \/ d[k] # c[k]}

\* C26: DELETE /cache/h, in src/scrapper.js and in src/unnamed/part_002,
\* removes or changes only entries whose key the server builds from h and
\* some limit.
C26_InvalidateOnlyThatHandle ==
    [][\A h \in DelHandles :
          /\ (ret'.op = "delete" /\ DeleteCache(h))
                => \A k \in Touched(cache, cache') :
                      \E n \in 1..MAX_POSTS : k = CacheKey(h, n)
          /\ (v2'.cache # v2.cache /\ V2DeleteCache(h))
                => \A k \in Touched(v2.cache, v2'.cache) :
                      \E n \in 1..MAX_POSTS : k = V2CacheKey(h, n)
      ]_vars


\* C27: once the guard's timer has ended a request with TIMEOUT, every step
\* up to the next request in its slot leaves the request ended with that
\* error, so it never waits for listItems; and the step in which its actor
\* call settles after all changes neither the cache nor the limiter.
C27_LateCompletionIgnored ==
    [][\A r \in Slots :
          (req[r].pc = "done" /\ req[r].res.via = "timer" /\ ~StartsRequest(r))
             => /\ req'[r].pc = "done"
                /\ req'[r].res = req[r].res
                /\ req'[r].res.error.code = "TIMEOUT"
                /\ req'[r].actor # req[r].actor
                      => /\ req'[r].actor = "settled"
                         /\ cache' = cache
                         /\ <<tokens, lastRefill, windowCalls>>' = <<tokens, lastRefill, windowCalls>>
      ]_vars

\* the actor call of a request that the guard had ended has settled
C27_Witness ==
    /\ req[1].pc = "done"
    /\ req[1].res.via = "timer"
    /\ req[1].res.error.code = "TIMEOUT"
    /\ req[1].actor = "settled"


\* C28: a request that starts while another one for the same key is waiting
\* for the provider, and that finds no entry for the key, takes a token of
\* its own and starts an actor call of its own; and every request that
\* ends with posts leaves the cache entry of its key holding those posts if
\* there are any, and as it was if there are none, so the entry is that of
\* the last request that ended with posts.
C28_NoCoalescing ==
    [][\A r \in Slots :
          /\ ( /\ StartsRequest(r)
               /\ req'[r].key \notin DOMAIN LiveCache(cache, now)
               /\ \E s \in Slots \ {r} :
                     /\ req[s].pc \in {"awaitActor", "awaitDataset"}
                     /\ req[s].key = req'[r].key )
                => /\ req'[r].pc = "awaitActor"
                   /\ req'[r].called
                   /\ tokens' = tokens - 1
                   /\ windowCalls' = windowCalls + 1
          /\ (req[r].pc = "awaitDataset" /\ req'[r].res.kind = "posts")
                => IF Len(req'[r].res.posts) > 0
                   THEN /\ req[r].key \in DOMAIN cache'
                        /\ cache'[req[r].key].v = req'[r].res.posts
                   ELSE cache' = cache
      ]_vars

\* two requests for one key were both answered by the provider, with
\* different posts, and the entry holds the posts of the second
C28_Witness ==
    /\ req[1].pc = "done" /\ req[2].pc = "done"
    /\ req[1].res.via = "dataset" /\ req[2].res.via = "dataset"
    /\ req[1].key = req[2].key
    /\ Len(req[1].res.posts) > 0
    /\ Len(req[2].res.posts) > 0
    /\ req[1].res.posts # req[2].res.posts
    /\ req[1].key \in DOMAIN cache
    /\ cache[req[1].key].v = req[2].res.posts
    /\ tokens = RATE_LIMIT_PER_HOUR - 2
    /\ windowCalls = 2

====
